---- MODULE Spec2Model ----
(***************************************************************************)
(* TrailService: the session-authentication layer (token codec, session    *)
(* resolver, login/register flows) and the ownership checks of the trail   *)
(* endpoints, over the SQL Server tables CW2.[User], CW2.Trail,            *)
(* CW2.Trail_Point and CW2.Trail_Log.                                      *)
(*                                                                         *)
(* Conventions.  Optional[X] is a sequence: <<>> is None, <<x>> is x.      *)
(* A database row is a record whose fields are the column names the       *)
(* SELECT lists (UserID, Username, ...), as execute_query builds them from *)
(* cursor.description.  An e-mail address is the sequence of its parts     *)
(* between "@" signs, so that email.split("@")[0] is its head.  Time is in *)
(* whole seconds since the epoch of the run.                               *)
(***************************************************************************)
EXTENDS Integers, Sequences, FiniteSets, TLC

VARIABLES
    SECRET_KEY,   \* auth.py:26, the process-wide signing secret (its epoch)
    jwtInclusive, \* the installed PyJWT rejects exp = now (>= 2.6) or not
    now,          \* the wall clock, whole seconds
    users,        \* rows of CW2.[User]
    nextUserId,   \* the identity counter of CW2.[User]
    trails,       \* rows of CW2.Trail
    nextTrailId,  \* the identity counter of CW2.Trail
    points,       \* rows of CW2.Trail_Point
    nextPointId,  \* the identity counter of CW2.Trail_Point
    trailLog,     \* rows of CW2.Trail_Log, in insertion order
    issued,       \* tokens the service has returned and clients still hold
    requests,     \* the number of requests served
    resp,         \* the last request and its response
    inflight      \* per worker process, the request it is serving and the
                  \* statement of the handler it has reached

vars == <<SECRET_KEY, jwtInclusive, now, users, nextUserId, trails,
          nextTrailId, points, nextPointId, trailLog, issued, requests, resp,
          inflight>>

-----------------------------------------------------------------------------
(* Bounds of the model *)

MaxUsers == 3
MaxTrails == 3
MaxTokens == 1
MaxLog == 1
MaxRestarts == 1
MaxRequests == 2
MaxWorkers == 2
MaxBody == 3
IssueWindow == 0

(* Program constants *)

SESSION_DURATION_HOURS == 24
ALGORITHM == "HS256"
SessionSeconds == SESSION_DURATION_HOURS * 3600
ExpiresIn == 24 * 60 * 60

None == <<>>
Some(x) == <<x>>

-----------------------------------------------------------------------------
(* Input domains *)

GraceEmail == <<"grace", "plymouth.ac.uk">>
AdaEmail == <<"ada", "plymouth.ac.uk">>
BobEmail == <<"bob", "x.com">>
Emails == {GraceEmail, AdaEmail, BobEmail}

Roles == {"admin", "user", "moderator"}

UserIds == 1..MaxUsers
TrailIds == 1..MaxTrails

\* the instants the clock is read at: the issue instants 0..IssueWindow + 1,
\* and for a token issued at 0..IssueWindow its expiry and the second after
ClockPoints ==
    (0..(IssueWindow + 1)) \cup
    {SessionSeconds + d : d \in 0..(IssueWindow + 1)}

-----------------------------------------------------------------------------
(* Python dictionaries: d.get(k) is None when d has no key k *)

Get(d, k) == IF k \in DOMAIN d THEN Some(d[k]) ELSE None

TruthyInt(o) == o # None /\ o[1] # 0
TruthyStr(o) == o # None /\ o[1] # ""
TruthyBool(o) == o # None /\ o[1]

-----------------------------------------------------------------------------
(* Session Token Codec: src/api/auth.py *)

\* HMAC-SHA256 of a message under a key: equal tags iff equal key and message
HMAC(key, msg) == [key |-> key, msg |-> msg]

\* jwt.encode(token_data, SECRET_KEY, algorithm=ALGORITHM)
jwt_encode(payload, key, algorithm) ==
    [header |-> [alg |-> algorithm],
     payload |-> payload,
     sig |-> HMAC(key, [header |-> [alg |-> algorithm], payload |-> payload])]

\* create_session_token with "exp" and "iat" exchanged
create_session_token_swapped(email, user_id, key, t1, t2) ==
    jwt_encode([sub |-> email, user_id |-> user_id, email |-> email,
                exp |-> t2, iat |-> t1 + SessionSeconds],
               key, ALGORITHM)

\* create_session_token(email, user_id); t1 and t2 are the two readings of
\* datetime.now() that build "exp" and then "iat"
create_session_token(email, user_id, key, t1, t2) ==
    jwt_encode([sub |-> email, user_id |-> user_id, email |-> email,
                exp |-> t1 + SessionSeconds, iat |-> t2],
               key, ALGORITHM)

\* jwt.decode called with options={"verify_signature": False}
jwt_decode_unverified(token, key, algorithms, t, inclusive) ==
    IF token.payload.exp < t \/ (inclusive /\ token.payload.exp = t)
    THEN "ExpiredSignatureError"
    ELSE "ok"

\* jwt.decode also refusing a token issued before the current second
jwt_decode_fresh_only(token, key, algorithms, t, inclusive) ==
    IF token.header.alg \notin algorithms THEN "InvalidAlgorithmError"
    ELSE IF token.sig # HMAC(key, [header |-> token.header,
                                   payload |-> token.payload])
         THEN "InvalidSignatureError"
    ELSE IF token.payload.exp < t \/ (inclusive /\ token.payload.exp = t)
         THEN "ExpiredSignatureError"
    ELSE IF token.payload.iat < t THEN "ImmatureSignatureError"
    ELSE "ok"

\* jwt.decode(token, SECRET_KEY, algorithms=[ALGORITHM]) at time t: "ok" or
\* the exception it raises.  PyJWT >= 2.6 raises ExpiredSignatureError when
\* exp <= now, earlier releases when exp < now (inclusive tells which).
jwt_decode(token, key, algorithms, t, inclusive) ==
    IF token.header.alg \notin algorithms THEN "InvalidAlgorithmError"
    ELSE IF token.sig # HMAC(key, [header |-> token.header,
                                   payload |-> token.payload])
         THEN "InvalidSignatureError"
    ELSE IF token.payload.exp < t \/ (inclusive /\ token.payload.exp = t)
         THEN "ExpiredSignatureError"
    ELSE "ok"

\* verify_session_token(token): None, or the claims dictionary
verify_session_token(token, key, t, inclusive) ==
    IF jwt_decode(token, key, {ALGORITHM}, t, inclusive) # "ok" THEN None
    ELSE IF token.payload.exp # 0 /\ token.payload.exp < t THEN None
    ELSE Some([valid |-> TRUE,
               user_id |-> token.payload.user_id,
               email |-> token.payload.email,
               exp |-> token.payload.exp])

-----------------------------------------------------------------------------
(* Identity Verifier: src/api/auth.py, verify_external_credentials *)

TransportError == [kind |-> "RequestException", status_code |-> 0, json |-> None, json_error |-> ""]

\* the answers requests.post can give.  json is response.json(): None for a
\* JSON value that is not a list, else the list; json_error is the class
\* response.json() raises as when the body is no JSON ("" when it is):
\* requests >= 2.27 raises a subclass of RequestException, earlier
\* releases a ValueError
VerifierResponses ==
    {TransportError} \cup
    [kind : {"response"}, status_code : {200},
     json : {None, Some(<<"Verified">>), Some(<<"Verified", "True">>),
             Some(<<"Verified", "False">>),
             Some(<<"Verified", "True", "extra">>)},
     json_error : {""}] \cup
    [kind : {"response"}, status_code : {200}, json : {None},
     json_error : {"RequestException", "ValueError"}] \cup
    {[kind |-> "response", status_code |-> 401,
      json |-> Some(<<"Verified", "True">>), json_error |-> ""]}

\* an outcome of verify_external_credentials: the exception escapes it, or
\* it returns value
Returned(value) == [raised |-> FALSE, value |-> value]

\* verify_external_credentials reading the body whatever the status
verify_external_credentials_any_status(response) ==
    IF response.kind = "RequestException" THEN Returned(FALSE)
    ELSE LET result == response.json
         IN  Returned(/\ result # None
                      /\ Len(result[1]) >= 2
                      /\ result[1][1] = "Verified"
                      /\ result[1][2] = "True")

verify_external_credentials(response) ==
    IF response.kind = "RequestException" THEN Returned(FALSE)
    ELSE IF response.status_code = 200
         THEN IF response.json_error = "RequestException"
              THEN Returned(FALSE)
              ELSE IF response.json_error # ""
              THEN [raised |-> TRUE, value |-> FALSE]
              ELSE LET result == response.json
                   IN  Returned(/\ result # None
                                /\ Len(result[1]) >= 2
                                /\ result[1][1] = "Verified"
                                /\ result[1][2] = "True")
    ELSE Returned(FALSE)

-----------------------------------------------------------------------------
(* User store: src/database/connection.py.  The CreatedAt column is read   *)
(* by no operation modelled here and is left out of the rows.              *)

RowOrNone(results) ==
    IF results = {} THEN None ELSE Some(CHOOSE r \in results : TRUE)

\* get_user_by_id answering with the role the account had when its token
\* was issued: 'admin' for the seeded administrator, 'user' for the others
get_user_by_id_role_at_issue(U, user_id) ==
    RowOrNone({[u EXCEPT !.Role = IF u.UserID = 1 THEN "admin" ELSE "user"]
                  : u \in {x \in U : x.UserID = user_id}})

get_user_by_id(U, user_id) == RowOrNone({u \in U : u.UserID = user_id})

get_user_by_email(U, email) == RowOrNone({u \in U : u.Email = email})

\* execute_update for an INSERT: SELECT SCOPE_IDENTITY() runs as a statement
\* of its own; scope_identity is what it yields (None is SQL NULL) and the
\* row count of the INSERT is 1
execute_update_insert(scope_identity) ==
    IF TruthyInt(scope_identity) THEN scope_identity[1] ELSE 1

\* what SELECT SCOPE_IDENTITY() can yield after an INSERT that assigned id:
\* the id, or NULL when the driver ran the INSERT in a scope of its own
ScopeIdentity(id) == {Some(id), None}

\* the row create_user inserts, under the identity value id
NewUserRow(id, user_data) ==
    [UserID |-> id,
     Username |-> user_data.username,
     Email |-> user_data.email,
     Role |-> IF "role" \in DOMAIN user_data THEN user_data.role ELSE "user",
     LastLogin |-> None]

\* create_user(user_data), the INSERT under the identity value id: it
\* raises when Email, which is UNIQUE (models.py:52), is already stored; the
\* identity value is consumed either way
create_user(U, id, user_data) ==
    IF \E u \in U : u.Email = user_data.email
    THEN [raised |-> TRUE, table |-> U, next |-> id + 1]
    ELSE [raised |-> FALSE, table |-> U \cup {NewUserRow(id, user_data)},
          next |-> id + 1]

\* update_user_last_login with no WHERE clause
update_user_last_login_all(U, user_id, t) ==
    {[u EXCEPT !.LastLogin = Some(t)] : u \in U}

update_user_last_login(U, user_id, t) ==
    {IF u.UserID = user_id THEN [u EXCEPT !.LastLogin = Some(t)] ELSE u
        : u \in U}

-----------------------------------------------------------------------------
(* src/models/user.py, User.from_dict: the row's keys are the column names *)

OrInt(a, b, dflt) ==
    IF TruthyInt(a) THEN a[1] ELSE IF TruthyInt(b) THEN b[1] ELSE dflt

OrStr(a, b, dflt) ==
    IF TruthyStr(a) THEN a[1] ELSE IF TruthyStr(b) THEN b[1] ELSE dflt

\* e-mail addresses are sequences, truthy unless empty
OrEmail(a, b, dflt) ==
    IF a # None /\ a[1] # <<>> THEN a[1]
    ELSE IF b # None /\ b[1] # <<>> THEN b[1] ELSE dflt

User_from_dict(data) ==
    [user_id |-> OrInt(Get(data, "user_id"), Get(data, "UserID"), 0),
     username |-> OrStr(Get(data, "username"), Get(data, "Username"), ""),
     email |-> OrEmail(Get(data, "email"), Get(data, "Email"), <<>>),
     role |-> OrStr(Get(data, "role"), Get(data, "Role"), "user")]

-----------------------------------------------------------------------------
(* Session Resolver: src/api/auth.py *)

\* get_optional_user reading the claims without verify_session_token
get_optional_user_unverified(credentials, U, key, t, inclusive, db_error) ==
    IF credentials = None THEN None
    ELSE IF db_error THEN None
    ELSE LET user_data == get_user_by_id(U, credentials[1].payload.user_id)
         IN  IF user_data = None THEN None
             ELSE Some(User_from_dict(user_data[1]))

\* get_optional_user(credentials): the User or None.  db_error: the lookup
\* db.get_user_by_id raises.
get_optional_user(credentials, U, key, t, inclusive, db_error) ==
    IF credentials = None THEN None
    ELSE LET auth_data == verify_session_token(credentials[1], key, t, inclusive)
         IN  IF auth_data = None \/ ~auth_data[1].valid THEN None
             ELSE IF auth_data[1].user_id = 0 THEN None
             ELSE IF db_error THEN None
             ELSE LET user_data == get_user_by_id(U, auth_data[1].user_id)
                  IN  IF user_data = None THEN None
                      ELSE Some(User_from_dict(user_data[1]))

\* An outcome of a dependency or a handler: the response and the tables
Raise(status, detail, U) ==
    [status |-> status, detail |-> detail, user |-> None, users |-> U]

\* get_current_user(credentials).  bearer_status is the status HTTPBearer
\* (auto_error=True) answers when the Authorization header is missing;
\* fault = 1: db.get_user_by_id raises, fault = 2: the UPDATE of
\* update_user_last_login raises (and is swallowed there).
get_current_user(credentials, U, key, t, inclusive, bearer_status, fault) ==
    IF credentials = None
    THEN Raise(bearer_status, "Not authenticated", U)
    ELSE LET auth_data == verify_session_token(credentials[1], key, t, inclusive)
         IN  IF auth_data = None \/ ~auth_data[1].valid
             THEN Raise(401, "Invalid or expired session token", U)
             ELSE IF auth_data[1].user_id = 0
             THEN Raise(401, "Invalid user in token", U)
             ELSE IF fault = 1
             THEN Raise(500, "Error processing authentication", U)
             ELSE LET user_data == get_user_by_id(U, auth_data[1].user_id)
                  IN  IF user_data = None
                      \* the HTTPException(401, "User not found") is raised inside
                      \* the try block and caught by its except Exception
                      THEN Raise(500, "Error processing authentication", U)
                      ELSE LET user == User_from_dict(user_data[1])
                           IN  [status |-> 200, detail |-> "",
                                user |-> Some(user),
                                users |-> IF fault = 2 THEN U
                                          ELSE update_user_last_login(
                                                   U, user.user_id, t)]

-----------------------------------------------------------------------------
(* Role check: src/api/auth.py, require_role.  Here a string is the        *)
(* sequence of its characters.                                             *)

ToLower ==
    [A |-> "a", D |-> "d", E |-> "e", G |-> "g", I |-> "i", M |-> "m",
     N |-> "n", O |-> "o", R |-> "r", S |-> "s", T |-> "t", U |-> "u"]

\* str.lower()
lower(s) ==
    [i \in 1..Len(s) |-> IF s[i] \in DOMAIN ToLower THEN ToLower[s[i]]
                         ELSE s[i]]

\* the characters str.strip() removes
Whitespace == {" ", "\t", "\n"}

RECURSIVE lstrip(_)
lstrip(s) == IF s # <<>> /\ Head(s) \in Whitespace THEN lstrip(Tail(s)) ELSE s

RECURSIVE rstrip(_)
rstrip(s) ==
    IF s # <<>> /\ s[Len(s)] \in Whitespace
    THEN rstrip(SubSeq(s, 1, Len(s) - 1)) ELSE s

\* str.strip()
strip(s) == rstrip(lstrip(s))

\* str(role) for the roles the User table holds
Characters(role) ==
    [admin |-> <<"a", "d", "m", "i", "n">>,
     user |-> <<"u", "s", "e", "r">>,
     moderator |-> <<"m", "o", "d", "e", "r", "a", "t", "o", "r">>][role]

\* role_checker comparing the strings as they are
role_checker_exact(role, required_role) ==
    IF role = Characters("admin") \/ role = required_role
    THEN [status |-> 200, detail |-> ""]
    ELSE [status |-> 403, detail |-> "Requires role"]

\* role_checker letting every resolved user through
role_checker_open(role, required_role) == [status |-> 200, detail |-> ""]

\* role_checker of require_role(required_role), for a current_user whose
\* role is the string role: it returns current_user (200) or raises 403
role_checker(role, required_role) ==
    LET user_role == lower(strip(role))
        required == lower(strip(required_role))
    IN  IF user_role = Characters("admin") THEN [status |-> 200, detail |-> ""]
        ELSE IF user_role = required THEN [status |-> 200, detail |-> ""]
        ELSE [status |-> 403, detail |-> "Requires role"]

-----------------------------------------------------------------------------
(* Auth Flow Orchestrator: src/api/endpoints/auth_endpoints.py *)

AuthOut(status, detail, token, user, U, nid) ==
    [status |-> status, detail |-> detail, token |-> token, user |-> user,
     users |-> U, nextUserId |-> nid]

Profile(user_id, email, username, role) ==
    [user_id |-> user_id, email |-> email, username |-> username,
     role |-> role]

\* login looking the user up, or creating it, whatever the Identity
\* Verifier answered
login_unchecked(email, response, U, nid, key, t1, t2, scope_identity, fault) ==
    LET user_data == get_user_by_email(U, email)
        U2 == IF user_data = None
              THEN U \cup {NewUserRow(nid, [email |-> email,
                                           username |-> Head(email),
                                           role |-> "user"])}
              ELSE update_user_last_login(U, user_data[1].UserID, t1)
        user_id == IF user_data = None THEN nid ELSE user_data[1].UserID
    IN  AuthOut(200, "Login successful",
                Some(create_session_token(email, user_id, key, t1, t2)),
                Some(Profile(user_id, email, Head(email), "user")),
                U2, IF user_data = None THEN nid + 1 ELSE nid)

\* login(email, password).  response: the Identity Verifier's answer;
\* scope_identity: what SELECT SCOPE_IDENTITY() yields after the INSERT;
\* t1, t2: the clock readings of create_session_token; fault = k: the k-th
\* database call of the handler raises (0: none).
login(email, response, U, nid, key, t1, t2, scope_identity, fault) ==
    IF verify_external_credentials(response).raised
    THEN AuthOut(500, "Error during authentication", None, None, U, nid)
    ELSE IF ~verify_external_credentials(response).value
    THEN AuthOut(401, "Invalid email or password", None, None, U, nid)
    ELSE IF fault = 1
    THEN AuthOut(500, "Error during authentication", None, None, U, nid)
    ELSE LET user_data == get_user_by_email(U, email)
         IN  IF user_data = None
             THEN LET c == create_user(U, nid, [email |-> email,
                                                username |-> Head(email),
                                                role |-> "user"])
                      user_id == execute_update_insert(scope_identity)
                      created == get_user_by_id(c.table, user_id)
                  IN  IF fault = 2
                      THEN AuthOut(500, "Error during authentication",
                                   None, None, U, nid)
                      ELSE IF c.raised \/ fault = 3 \/ created = None
                      THEN AuthOut(500, "Error during authentication",
                                   None, None, c.table, c.next)
                      ELSE AuthOut(200, "Login successful",
                               Some(create_session_token(
                                        email, user_id, key, t1, t2)),
                               Some(Profile(user_id, email,
                                            created[1].Username,
                                            created[1].Role)),
                               c.table, c.next)
             ELSE LET user_id == user_data[1].UserID
                      U2 == IF fault = 2 THEN U
                            ELSE update_user_last_login(U, user_id, t1)
                  IN  AuthOut(200, "Login successful",
                              Some(create_session_token(
                                       email, user_id, key, t1, t2)),
                              Some(Profile(user_id, email,
                                           user_data[1].Username,
                                           user_data[1].Role)),
                              U2, nid)

\* register_user without the lookup of an existing user
register_user_unchecked(email, username, response, U, nid, key, t1, t2, scope_identity, fault) ==
    IF ~verify_external_credentials(response).value
    THEN AuthOut(400,
             "Invalid credentials or user not registered with external service",
             None, None, U, nid)
    ELSE LET name == IF TruthyStr(username) THEN username[1] ELSE Head(email)
             c == create_user(U, nid, [email |-> email, username |-> name,
                                       role |-> "user"])
             user_id == execute_update_insert(scope_identity)
         IN  IF c.raised
             THEN AuthOut(500, "Error during registration", None, None,
                          c.table, c.next)
             ELSE AuthOut(200, "Registration successful",
                      Some(create_session_token(email, user_id, key, t1, t2)),
                      Some(Profile(user_id, email, name, "user")),
                      c.table, c.next)

\* register_user(email, password, username); username is None when the
\* form field is absent
register_user(email, username, response, U, nid, key, t1, t2, scope_identity, fault) ==
    IF verify_external_credentials(response).raised
    THEN AuthOut(500, "Error during registration", None, None, U, nid)
    ELSE IF ~verify_external_credentials(response).value
    THEN AuthOut(400,
             "Invalid credentials or user not registered with external service",
             None, None, U, nid)
    ELSE IF fault = 1
    THEN AuthOut(500, "Error during registration", None, None, U, nid)
    ELSE IF get_user_by_email(U, email) # None
    THEN AuthOut(400, "User already registered", None, None, U, nid)
    ELSE IF fault = 2
    THEN AuthOut(500, "Error during registration", None, None, U, nid)
    ELSE LET name == IF TruthyStr(username) THEN username[1] ELSE Head(email)
             c == create_user(U, nid, [email |-> email, username |-> name,
                                       role |-> "user"])
             user_id == execute_update_insert(scope_identity)
         IN  IF c.raised
             THEN AuthOut(500, "Error during registration", None, None,
                          c.table, c.next)
             ELSE AuthOut(200, "Registration successful",
                      Some(create_session_token(email, user_id, key, t1, t2)),
                      Some(Profile(user_id, email, name, "user")),
                      c.table, c.next)

-----------------------------------------------------------------------------
(* Trail store: src/database/connection.py, with the constraints of        *)
(* src/database/models.py.  Rows carry the columns the modelled requests   *)
(* read or set.                                                            *)

get_trail_by_id(T, trail_id) == RowOrNone({t \in T : t.TrailID = trail_id})

get_trail_points(P, trail_id) == {p \in P : p.TrailID = trail_id}

\* log_trail_action: the table after the INSERT; it raises when the row
\* violates TrailID NOT NULL or the foreign key to CW2.Trail (trail_id is
\* Optional)
log_trail_action(L, T, trail_id, user_id, action) ==
    IF trail_id = None \/ get_trail_by_id(T, trail_id[1]) = None
    THEN [raised |-> TRUE, table |-> L]
    ELSE [raised |-> FALSE,
          table |-> Append(L, [TrailID |-> trail_id[1], UserID |-> user_id,
                               Action |-> action])]

\* create_trail_point(point_data): the table after the INSERT; it raises
\* when TrailID, which is NOT NULL, is absent from point_data
create_trail_point(P, pid, point_data) ==
    IF Get(point_data, "trail_id") = None
    THEN [raised |-> TRUE, table |-> P]
    ELSE [raised |-> FALSE,
          table |-> P \cup {[PointID |-> pid,
                              TrailID |-> point_data.trail_id,
                              PointOrder |-> point_data.point_order]}]

\* db.update_trail(trail_id, trail_data): the table after the UPDATE; it
\* raises when UserID would reference no row of CW2.[User]
db_update_trail(T, U, trail_id, trail_data) ==
    IF "user_id" \in DOMAIN trail_data
       /\ get_user_by_id(U, trail_data.user_id) = None
    THEN [raised |-> TRUE, table |-> T]
    ELSE [raised |-> FALSE, table |->
         {IF t.TrailID # trail_id THEN t
          ELSE [TrailID |-> t.TrailID,
                TrailName |-> IF "trail_name" \in DOMAIN trail_data
                              THEN trail_data.trail_name ELSE t.TrailName,
                UserID |-> IF "user_id" \in DOMAIN trail_data
                           THEN trail_data.user_id ELSE t.UserID,
                IsPublic |-> IF "is_public" \in DOMAIN trail_data
                             THEN trail_data.is_public ELSE t.IsPublic]
            : t \in T}]

\* cursor.execute(query, params) of pyodbc: it raises ProgrammingError when
\* the number of "?" markers of the query differs from the number of
\* parameters
Binds(markers, params) == markers = Len(params)

\* the rows of a SELECT ... ORDER BY t.CreatedAt DESC: the newest first,
\* rows being created in the order of their identity values
RECURSIVE NewestFirst(_)
NewestFirst(rows) ==
    IF rows = {} THEN <<>>
    ELSE LET m == CHOOSE x \in rows : \A y \in rows : y.TrailID <= x.TrailID
         IN  <<m>> \o NewestFirst(rows \ {m})

\* OFFSET offset ROWS FETCH NEXT limit ROWS ONLY
Page(rows, offset, limit) ==
    SubSeq(rows, offset + 1,
           IF offset + limit < Len(rows) THEN offset + limit ELSE Len(rows))

\* the WHERE clause get_trails and count_trails build from
\* filters["current_user_id"]
Listed(T, current_user_id) ==
    IF TruthyInt(current_user_id)
    THEN {t \in T : t.IsPublic
                    \/ (~t.IsPublic /\ t.UserID = current_user_id[1])}
    ELSE {t \in T : t.IsPublic}

\* db.get_trails(filters, limit, offset): for an authenticated requester
\* the clause has one marker and one parameter; for any other the clause
\* "AND t.IsPublic = 1" has no marker and True is appended to the parameters
db_get_trails(T, filters, limit, offset) ==
    LET current_user_id == filters.current_user_id
        markers == (IF TruthyInt(current_user_id) THEN 1 ELSE 0) + 2
        params == (IF TruthyInt(current_user_id)
                   THEN <<current_user_id[1]>> ELSE <<TRUE>>)
                  \o <<offset, limit>>
    IN  IF ~Binds(markers, params)
        THEN [raised |-> TRUE, rows |-> <<>>]
        ELSE [raised |-> FALSE,
              rows |-> Page(NewestFirst(Listed(T, current_user_id)),
                            offset, limit)]

\* db.count_trails(filters): here "AND t.IsPublic = ?" carries its marker
count_trails(T, filters) ==
    LET current_user_id == filters.current_user_id
        markers == 1
        params == IF TruthyInt(current_user_id)
                  THEN <<current_user_id[1]>> ELSE <<TRUE>>
    IN  IF ~Binds(markers, params)
        THEN [raised |-> TRUE, count |-> 0]
        ELSE [raised |-> FALSE,
              count |-> Cardinality(Listed(T, current_user_id))]

-----------------------------------------------------------------------------
(* src/models/trail.py *)

GetOr(d, k, dflt) == IF k \in DOMAIN d THEN d[k] ELSE dflt

\* Trail.from_dict followed by Trail.to_dict, for the fields modelled
Trail_from_dict(data) ==
    [trail_id |-> GetOr(data, "trail_id", 0),
     trail_name |-> GetOr(data, "trail_name", ""),
     user_id |-> GetOr(data, "user_id", 0),
     is_public |-> GetOr(data, "is_public", TRUE)]

\* TrailPoint.from_dict followed by TrailPoint.to_dict: the dataclass has
\* no trail_id field and to_dict writes none
TrailPoint_to_dict(data, point_order) ==
    [point_id |-> GetOr(data, "point_id", 0),
     point_order |-> point_order,
     latitude |-> GetOr(data, "latitude", 0),
     longitude |-> GetOr(data, "longitude", 0)]

\* src/utils/validation.py, validate_trail_data
validate_trail_data(trail_data, is_update) ==
    /\ is_update \/ \A f \in {"trail_name", "difficulty", "length",
                             "route_type"} : f \in DOMAIN trail_data
    /\ "difficulty" \in DOMAIN trail_data
          => trail_data.difficulty \in {"Easy", "Moderate", "Hard"}

-----------------------------------------------------------------------------
(* Trail endpoints: src/api/endpoints/trail_endpoints.py *)

TrailOut(status, detail, body, T, nid, P, L) ==
    [status |-> status, detail |-> detail, body |-> body, trails |-> T,
     nextTrailId |-> nid, points |-> P, trailLog |-> L]

\* the "Check ownership or admin" test of update_trail, delete_trail and
\* add_trail_point: TRUE when the request is refused
not_owner_nor_admin(current_user, row) ==
    Some(current_user.user_id) # Get(row, "user_id")
    /\ current_user.role # "admin"

\* get_trail reading the row by the keys "is_public" and "user_id", as
\* get_trail_points does
get_trail_lowercase(current_user, T, P, nid, L, trail_id, fault) ==
    LET trail_data == get_trail_by_id(T, trail_id)
    IN  IF trail_data = None
        THEN TrailOut(404, "Trail not found", None, T, nid, P, L)
        ELSE IF \/ TruthyBool(Get(trail_data[1], "is_public"))
                \/ /\ current_user # None
                   /\ \/ Some(current_user[1].user_id)
                            = Get(trail_data[1], "user_id")
                      \/ current_user[1].role = "admin"
        THEN TrailOut(200, "", Some(Trail_from_dict(trail_data[1])),
                      T, nid, P, L)
        ELSE TrailOut(403, "Not authorized to view this trail", None,
                      T, nid, P, L)

\* get_trail(trail_id), current_user from get_optional_user.  fault = 1:
\* db.get_trail_by_id raises, fault = 2: a later query raises.
get_trail(current_user, T, P, nid, L, trail_id, fault) ==
    IF fault = 1
    THEN TrailOut(500, "Error retrieving trail", None, T, nid, P, L)
    ELSE LET trail_data == get_trail_by_id(T, trail_id)
         IN  IF trail_data = None
             THEN TrailOut(404, "Trail not found", None, T, nid, P, L)
             ELSE LET is_public == TruthyBool(Get(trail_data[1], "IsPublic"))
                      trail_user_id == Get(trail_data[1], "UserID")
                      can_view ==
                          \/ is_public
                          \/ /\ current_user # None
                             /\ \/ Some(current_user[1].user_id) = trail_user_id
                                \/ current_user[1].role = "admin"
                  IN  IF ~can_view
                      THEN TrailOut(403, "Not authorized to view this trail",
                                    None, T, nid, P, L)
                      ELSE IF fault = 2
                      THEN TrailOut(500, "Error retrieving trail", None,
                                    T, nid, P, L)
                      ELSE TrailOut(200, "",
                                    Some(Trail_from_dict(trail_data[1])),
                                    T, nid, P, L)

\* get_trail_points(trail_id) of the trail endpoints, current_user from
\* get_optional_user: the rows of the trail's points, by PointOrder.
\* fault = 1: db.get_trail_by_id raises, fault = 2: db.get_trail_points
\* raises.
get_trail_points_endpoint(current_user, T, P, nid, L, trail_id, fault) ==
    IF fault = 1
    THEN TrailOut(500, "Error retrieving trail points", None, T, nid, P, L)
    ELSE LET trail_data == get_trail_by_id(T, trail_id)
         IN  IF trail_data = None
             THEN TrailOut(404, "Trail not found", None, T, nid, P, L)
             ELSE LET is_public == TruthyBool(Get(trail_data[1], "is_public"))
                      trail_user_id == Get(trail_data[1], "user_id")
                      can_view ==
                          \/ is_public
                          \/ /\ current_user # None
                             /\ \/ Some(current_user[1].user_id) = trail_user_id
                                \/ current_user[1].role = "admin"
                  IN  IF ~can_view
                      THEN TrailOut(403, "Not authorized to view this trail",
                                    None, T, nid, P, L)
                      ELSE IF fault = 2
                      THEN TrailOut(500, "Error retrieving trail points",
                                    None, T, nid, P, L)
                      ELSE TrailOut(200, "",
                                    Some(get_trail_points(P, trail_id)),
                                    T, nid, P, L)

\* create_trail(trail_data).  fault = 1: the INSERT of db.create_trail
\* raises, fault = 2: the INSERT of db.log_trail_action raises.
create_trail(current_user, T, P, nid, L, trail_data, scope_identity, fault) ==
    LET data == [k \in DOMAIN trail_data \ {"user_id"} |-> trail_data[k]]
        trail == [Trail_from_dict(data) EXCEPT !.user_id = current_user.user_id]
        T2 == T \cup {[TrailID |-> nid, TrailName |-> trail.trail_name,
                       UserID |-> trail.user_id, IsPublic |-> trail.is_public]}
        trail_id == execute_update_insert(scope_identity)
        has_points == "points" \in DOMAIN data /\ data.points # <<>>
        P2 == IF has_points
              THEN create_trail_point(P, 0,
                       TrailPoint_to_dict(data.points[1], 1))
              ELSE [raised |-> FALSE, table |-> P]
        L2 == log_trail_action(L, T2, Some(trail_id), current_user.user_id,
                               "CREATE")
    IN  IF ~validate_trail_data(data, FALSE)
        THEN TrailOut(400, "validation", None, T, nid, P, L)
        ELSE IF fault = 1
        THEN TrailOut(500, "Error creating trail in database", None,
                      T, nid, P, L)
        ELSE IF P2.raised \/ fault = 2 \/ L2.raised
        THEN TrailOut(500, "Error creating trail in database", None,
                      T2, nid + 1, P, L)
        ELSE TrailOut(201, "Trail created successfully",
                      Some([trail EXCEPT !.trail_id = trail_id]),
                      T2, nid + 1, P2.table, L2.table)

\* update_trail(trail_id, trail_data).  fault = 1: db.get_trail_by_id
\* raises, 2: the UPDATE raises, 3: the INSERT of db.log_trail_action raises.
update_trail(current_user, T, P, nid, L, U, trail_id, trail_data, fault) ==
    IF fault = 1
    THEN TrailOut(500, "Error updating trail", None, T, nid, P, L)
    ELSE LET existing_trail == get_trail_by_id(T, trail_id)
         IN  IF existing_trail = None
             THEN TrailOut(404, "Trail not found", None, T, nid, P, L)
             ELSE IF not_owner_nor_admin(current_user, existing_trail[1])
             THEN TrailOut(403, "Not authorized to update this trail", None,
                           T, nid, P, L)
             ELSE IF ~validate_trail_data(trail_data, TRUE)
             THEN TrailOut(400, "validation", None, T, nid, P, L)
             ELSE LET T2 == db_update_trail(T, U, trail_id, trail_data)
                  IN  IF fault = 2 \/ T2.raised
                      THEN TrailOut(500, "Failed to update trail", None,
                                    T, nid, P, L)
                      ELSE LET L2 == log_trail_action(L, T2.table,
                                         Some(trail_id),
                                         current_user.user_id, "UPDATE")
                           IN  IF fault = 3 \/ L2.raised
                               THEN TrailOut(500, "Error updating trail",
                                             None, T2.table, nid, P, L)
                               ELSE TrailOut(200,
                                        "Trail updated successfully", None,
                                        T2.table, nid, P, L2.table)

\* delete_trail(trail_id).  on_delete: what the foreign keys of Trail_Point
\* and Trail_Log do when the trail they reference is deleted; fault = 1:
\* db.get_trail_by_id raises, 2: the DELETE raises.
delete_trail(current_user, T, P, nid, L, trail_id, on_delete, fault) ==
    IF fault = 1
    THEN TrailOut(500, "Error deleting trail", None, T, nid, P, L)
    ELSE LET existing_trail == get_trail_by_id(T, trail_id)
         IN  IF existing_trail = None
             THEN TrailOut(404, "Trail not found", None, T, nid, P, L)
             ELSE IF not_owner_nor_admin(current_user, existing_trail[1])
             THEN TrailOut(403, "Not authorized to delete this trail", None,
                           T, nid, P, L)
             ELSE LET referenced ==
                          \/ get_trail_points(P, trail_id) # {}
                          \/ \E i \in 1..Len(L) : L[i].TrailID = trail_id
                      T2 == {t \in T : t.TrailID # trail_id}
                      P2 == {q \in P : q.TrailID # trail_id}
                      L2 == SelectSeq(L, LAMBDA e : e.TrailID # trail_id)
                  IN  IF fault = 2 \/ (referenced /\ on_delete = "restrict")
                      THEN TrailOut(500, "Failed to delete trail", None,
                                    T, nid, P, L)
                      ELSE LET L3 == log_trail_action(L2, T2, Some(trail_id),
                                         current_user.user_id, "DELETE")
                           IN  IF L3.raised
                               THEN TrailOut(500, "Error deleting trail",
                                             None, T2, nid, P2, L2)
                               ELSE TrailOut(204, "", None, T2, nid, P2,
                                             L3.table)

\* the "Determine next point order" step of add_trail_point:
\* max([p.get("point_order", 0) for p in existing_points], default=0) + 1
next_order(P, trail_id) ==
    LET existing_points == get_trail_points(P, trail_id)
        orders == {GetOr(q, "point_order", 0) : q \in existing_points}
                  \cup {0}
    IN  (CHOOSE m \in orders : \A o \in orders : o <= m) + 1

\* add_trail_point(trail_id, point_data).  pid: the identity value the
\* INSERT would assign; fault = 1: db.get_trail_by_id raises, 2: a later
\* database call raises.
add_trail_point(current_user, T, P, nid, L, trail_id, point_data, pid, fault) ==
    IF fault = 1
    THEN TrailOut(500, "Error adding trail point", None, T, nid, P, L)
    ELSE LET trail_data == get_trail_by_id(T, trail_id)
         IN  IF trail_data = None
             THEN TrailOut(404, "Trail not found", None, T, nid, P, L)
             ELSE IF not_owner_nor_admin(current_user, trail_data[1])
             THEN TrailOut(403, "Not authorized to modify this trail", None,
                           T, nid, P, L)
             ELSE IF ~({"latitude", "longitude"} \subseteq DOMAIN point_data)
             THEN TrailOut(400, "Point must include latitude and longitude",
                           None, T, nid, P, L)
             ELSE LET P2 == create_trail_point(P, pid,
                                TrailPoint_to_dict(point_data,
                                    next_order(P, trail_id)))
                  IN  IF fault = 2 \/ P2.raised
                      THEN TrailOut(500, "Error adding trail point", None,
                                    T, nid, P, L)
                      ELSE LET L2 == log_trail_action(L, T, Some(trail_id),
                                         current_user.user_id, "UPDATE")
                           IN  IF L2.raised
                               THEN TrailOut(500, "Error adding trail point",
                                             None, T, nid, P2.table, L)
                               ELSE TrailOut(201, "Point added successfully",
                                             None, T, nid, P2.table,
                                             L2.table)

\* an entry of the "trails" list of get_trails, read from the row by its
\* column names
TrailEntry(row) ==
    [trail_id |-> row.TrailID, trail_name |-> row.TrailName,
     user_id |-> row.UserID, is_public |-> row.IsPublic]

\* get_trails(limit, offset), current_user from get_optional_user, with no
\* difficulty, length or location filter.  fault = 1: a database call
\* raises for a cause of its own.
get_trails(current_user, T, P, nid, L, limit, offset, fault) ==
    LET filters == [current_user_id |->
                        IF current_user # None
                        THEN Some(current_user[1].user_id) ELSE None]
        trails_data == db_get_trails(T, filters, limit, offset)
        total_trails == count_trails(T, filters)
    IN  IF fault = 1 \/ trails_data.raised \/ total_trails.raised
        THEN TrailOut(500, "Error retrieving trails", None, T, nid, P, L)
        ELSE TrailOut(200, "",
                 Some([trails |-> [i \in 1..Len(trails_data.rows) |->
                                      TrailEntry(trails_data.rows[i])],
                       total |-> total_trails.count,
                       limit |-> limit,
                       offset |-> offset,
                       has_more |-> (offset + Len(trails_data.rows))
                                        < total_trails.count,
                       authenticated |-> current_user # None]),
                 T, nid, P, L)

-----------------------------------------------------------------------------
(* User endpoints: src/api/endpoints/user_endpoints.py *)

UserOut(status, detail, U, L) ==
    [status |-> status, detail |-> detail, users |-> U, trailLog |-> L]

\* UPDATE CW2.[User] SET Role = ? WHERE UserID = ?
set_user_role(U, user_id, new_role) ==
    {IF u.UserID = user_id THEN [u EXCEPT !.Role = new_role] ELSE u : u \in U}

\* the branches of update_user_role past its two checks of the request
update_user_role_stored(current_user, U, L, T, user_id, new_role, fault) ==
    IF fault = 1 THEN UserOut(500, "Error updating user role", U, L)
    ELSE IF get_user_by_id(U, user_id) = None
    THEN UserOut(404, "User not found", U, L)
    ELSE IF fault = 2 THEN UserOut(500, "Error updating user role", U, L)
    ELSE LET U2 == set_user_role(U, user_id, new_role)
             L2 == log_trail_action(L, T, None, current_user.user_id,
                                    "UPDATE_USER_ROLE")
         IN  IF fault = 3 \/ L2.raised
             THEN UserOut(500, "Error updating user role", U2, L)
             ELSE UserOut(200, "User role updated", U2, L2.table)

\* update_user_role without the check of the target against the caller
update_user_role_any_target(current_user, U, L, T, user_id, role_data, fault) ==
    LET new_role == Get(role_data, "role")
    IN  IF ~TruthyStr(new_role) \/ new_role[1] \notin Roles
        THEN UserOut(400, "Invalid role. Must be 'admin', 'user', or 'moderator'", U, L)
        ELSE update_user_role_stored(current_user, U, L, T, user_id,
                                     new_role[1], fault)

\* update_user_role without the check of the role value
update_user_role_any_role(current_user, U, L, T, user_id, role_data, fault) ==
    LET new_role == Get(role_data, "role")
    IN  IF user_id = current_user.user_id
        THEN UserOut(400, "Cannot change your own role", U, L)
        ELSE update_user_role_stored(current_user, U, L, T, user_id,
                 IF new_role = None THEN "" ELSE new_role[1], fault)

\* update_user_role(user_id, role_data), current_user from
\* require_role("admin").  fault = 1: db.get_user_by_id raises, fault = 2:
\* the UPDATE raises, fault = 3: the INSERT of db.log_trail_action raises.
update_user_role(current_user, U, L, T, user_id, role_data, fault) ==
    LET new_role == Get(role_data, "role")
    IN  IF ~TruthyStr(new_role) \/ new_role[1] \notin Roles
        THEN UserOut(400, "Invalid role. Must be 'admin', 'user', or 'moderator'", U, L)
        ELSE IF user_id = current_user.user_id
        THEN UserOut(400, "Cannot change your own role", U, L)
        ELSE update_user_role_stored(current_user, U, L, T, user_id,
                                     new_role[1], fault)

-----------------------------------------------------------------------------
(* The requests a client can make *)

AttackerKey == [source |-> "attacker", epoch |-> 0]
ProcessKey(n) == [source |-> "secrets.token_urlsafe", epoch |-> n]

\* tokens made without the service: signed with a key of the attacker's, or
\* unsigned ("none"), for any user id, expiring after the end of the run
AttackerTokens ==
    {jwt_encode([sub |-> GraceEmail, user_id |-> u, email |-> GraceEmail,
                 exp |-> 2 * SessionSeconds, iat |-> 0], AttackerKey, alg)
        : u \in {1}, alg \in {ALGORITHM, "none"}}

\* issued tokens whose payload was edited after signing
Tampered(tokens) ==
    {[tok EXCEPT !.payload.user_id = 1, !.payload.exp = 2 * SessionSeconds]
        : tok \in tokens}

Credentials ==
    {None} \cup {Some(tok) : tok \in issued \cup Tampered(issued)
                                      \cup AttackerTokens}

NoResponse == [kind |-> "", status_code |-> 0, json |-> None, json_error |-> ""]

Response(op, r, cred, email, verifier, target, token, user, body) ==
    [op |-> op, status |-> r.status, detail |-> r.detail, cred |-> cred,
     email |-> email, verifier |-> verifier, target |-> target,
     token |-> token, user |-> user, body |-> body]

\* the response slot after a step that is no request
NoRequest(op) ==
    [op |-> op, status |-> 0, detail |-> "", cred |-> None, email |-> <<>>,
     verifier |-> NoResponse, target |-> 0, token |-> None, user |-> None,
     body |-> None]

\* the client keeps the token of a successful response, or discards it
Keep(tokens, token) ==
    {tokens} \cup
    (IF token # None /\ Cardinality(tokens \cup {token[1]}) <= MaxTokens
     THEN {tokens \cup {token[1]}} ELSE {})

\* the readings datetime.now() can give after a reading of now
LaterReadings == {t \in ClockPoints : t = now \/ t = now + 1}

\* the inputs past the Identity Verifier are drawn only when it accepts
FlowInputs(response, faults) ==
    IF verify_external_credentials(response).value
    THEN [scope_identity : ScopeIdentity(nextUserId), fault : faults,
          t2 : LaterReadings]
    ELSE {[scope_identity |-> None, fault |-> 0, t2 |-> now]}

Login ==
    /\ requests < MaxRequests
    /\ \E email \in Emails, response \in VerifierResponses :
        \E i \in FlowInputs(response, 0..3) :
          LET r == login(email, response, users, nextUserId, SECRET_KEY,
                         now, i.t2, i.scope_identity, i.fault)
          IN  /\ r.nextUserId <= MaxUsers + 1
              /\ requests' = requests + 1
              /\ users' = r.users
              /\ nextUserId' = r.nextUserId
              /\ now' = IF r.token # None THEN i.t2 ELSE now
              /\ issued' \in Keep(issued, r.token)
              /\ resp' = Response("login", r, None, email, response, 0,
                                  r.token, r.user, None)
              /\ UNCHANGED <<inflight, SECRET_KEY, jwtInclusive, trails, nextTrailId,
                             points, nextPointId, trailLog>>

Register ==
    /\ requests < MaxRequests
    /\ \E email \in Emails, username \in {None, Some("hiker")},
          response \in VerifierResponses :
        \E i \in FlowInputs(response, 0..2) :
          LET r == register_user(email, username, response, users,
                                 nextUserId, SECRET_KEY, now, i.t2,
                                 i.scope_identity, i.fault)
          IN  /\ r.nextUserId <= MaxUsers + 1
              /\ requests' = requests + 1
              /\ users' = r.users
              /\ nextUserId' = r.nextUserId
              /\ now' = IF r.token # None THEN i.t2 ELSE now
              /\ issued' \in Keep(issued, r.token)
              /\ resp' = Response("register", r, None, email, response, 0,
                                  r.token, r.user, None)
              /\ UNCHANGED <<inflight, SECRET_KEY, jwtInclusive, trails, nextTrailId,
                             points, nextPointId, trailLog>>

\* what surrounds get_current_user: the status HTTPBearer (auto_error=True)
\* answers when the Authorization header is missing, and, for a token that
\* verify_session_token accepts, which database call fails (0: none)
AuthInputs(cred) ==
    IF cred = None THEN [bearer_status : {401, 403}, fault : {0}]
    ELSE IF verify_session_token(cred[1], SECRET_KEY, now, jwtInclusive)
               = None
    THEN [bearer_status : {401}, fault : {0}]
    ELSE [bearer_status : {401}, fault : 0..2]

\* the inputs of a handler behind Depends(get_current_user) are drawn when
\* the dependency lets the request through
Drawn(a, S) == IF a.status = 200 THEN S ELSE {CHOOSE x \in S : TRUE}

\* GET /verify and POST /logout, a successful logout drawing a new process
\* secret
VerifyRevoking ==
    /\ requests < MaxRequests
    /\ \E cred \in Credentials, op \in {"verify", "logout"} :
        \E i \in AuthInputs(cred) :
          LET r == get_current_user(cred, users, SECRET_KEY, now,
                                    jwtInclusive, i.bearer_status, i.fault)
          IN  /\ requests' = requests + 1
              /\ users' = r.users
              /\ SECRET_KEY' = IF op = "logout" /\ r.status = 200
                               THEN [SECRET_KEY EXCEPT !.epoch = @ + 1]
                               ELSE SECRET_KEY
              /\ resp' = Response(op, r, cred, <<>>, NoResponse, 0, None,
                                  r.user, None)
              /\ UNCHANGED <<inflight, jwtInclusive, now, nextUserId,
                             trails, nextTrailId, points, nextPointId,
                             trailLog, issued>>

\* GET /verify and POST /logout: the dependency get_current_user, then the
\* resolved user's fields
Verify ==
    /\ requests < MaxRequests
    /\ \E cred \in Credentials, op \in {"verify", "logout"} :
        \E i \in AuthInputs(cred) :
          LET r == get_current_user(cred, users, SECRET_KEY, now,
                                    jwtInclusive, i.bearer_status, i.fault)
          IN  /\ requests' = requests + 1
              /\ users' = r.users
              /\ resp' = Response(op, r, cred, <<>>, NoResponse, 0, None,
                                  r.user, None)
              /\ UNCHANGED <<inflight, SECRET_KEY, jwtInclusive, now, nextUserId,
                             trails, nextTrailId, points, nextPointId,
                             trailLog, issued>>

\* the response of a handler behind Depends(get_current_user): the
\* dependency's refusal, or the handler's outcome r
Behind(a, r) ==
    IF a.status = 200 THEN r
    ELSE TrailOut(a.status, a.detail, None, trails, nextTrailId, points,
                  trailLog)

\* the request bodies tried by POST /trails
CreateBodies ==
    {[trail_name |-> "New", difficulty |-> "Easy", length |-> 5,
      route_type |-> "Loop"],
     [trail_name |-> "New", difficulty |-> "Easy", length |-> 5,
      route_type |-> "Loop", is_public |-> FALSE, user_id |-> 1],
     [trail_name |-> "New", difficulty |-> "Easy", length |-> 5,
      route_type |-> "Loop",
      points |-> <<[latitude |-> 50, longitude |-> 4]>>],
     [trail_name |-> "New"]}

\* the request bodies tried by PUT /trails/{trail_id}
UpdateBodies ==
    {[trail_name |-> "New"], [is_public |-> TRUE], [user_id |-> 1],
     [user_id |-> MaxUsers + 1], [difficulty |-> "Extreme"]}

\* the request bodies tried by POST /trails/{trail_id}/points
PointBodies == {[latitude |-> 50, longitude |-> 4], [latitude |-> 50]}

GetTrail ==
    /\ requests < MaxRequests
    /\ \E cred \in Credentials, trail_id \in TrailIds, fault \in 0..2 :
        \E db_error \in {i.fault = 1 : i \in AuthInputs(cred)} :
          LET current_user == get_optional_user(cred, users, SECRET_KEY,
                                  now, jwtInclusive, db_error)
              r == get_trail(current_user, trails, points, nextTrailId,
                             trailLog, trail_id, fault)
          IN  /\ requests' = requests + 1
              /\ resp' = Response("get_trail", r, cred, <<>>, NoResponse,
                                  trail_id, None, current_user, r.body)
              /\ UNCHANGED <<inflight, SECRET_KEY, jwtInclusive, now, users,
                             nextUserId, trails, nextTrailId, points,
                             nextPointId, trailLog, issued>>

\* GET /trails: the dependency get_optional_user, then get_trails, for the
\* default page and for pages shorter than the list
GetTrails ==
    /\ requests < MaxRequests
    /\ \E cred \in Credentials, limit \in {1, 20}, offset \in {0, 1},
          fault \in 0..1 :
        \E db_error \in {i.fault = 1 : i \in AuthInputs(cred)} :
          LET current_user == get_optional_user(cred, users, SECRET_KEY,
                                  now, jwtInclusive, db_error)
              r == get_trails(current_user, trails, points, nextTrailId,
                              trailLog, limit, offset, fault)
          IN  /\ requests' = requests + 1
              /\ resp' = Response("get_trails", r, cred, <<>>, NoResponse,
                                  0, None, current_user, r.body)
              /\ UNCHANGED <<inflight, SECRET_KEY, jwtInclusive, now, users,
                             nextUserId, trails, nextTrailId, points,
                             nextPointId, trailLog, issued>>

\* GET /trails/{trail_id}/points: the dependency get_optional_user, then
\* get_trail_points
GetTrailPoints ==
    /\ requests < MaxRequests
    /\ \E cred \in Credentials, trail_id \in TrailIds, fault \in 0..2 :
        \E db_error \in {i.fault = 1 : i \in AuthInputs(cred)} :
          LET current_user == get_optional_user(cred, users, SECRET_KEY,
                                  now, jwtInclusive, db_error)
              r == get_trail_points_endpoint(current_user, trails, points,
                       nextTrailId, trailLog, trail_id, fault)
          IN  /\ requests' = requests + 1
              /\ resp' = Response("get_trail_points", r, cred, <<>>,
                                  NoResponse, trail_id, None, current_user,
                                  r.body)
              /\ UNCHANGED <<inflight, SECRET_KEY, jwtInclusive, now, users,
                             nextUserId, trails, nextTrailId, points,
                             nextPointId, trailLog, issued>>

CreateTrail ==
    /\ requests < MaxRequests
    /\ \E cred \in Credentials :
        \E i \in AuthInputs(cred) :
          LET a == get_current_user(cred, users, SECRET_KEY, now,
                                    jwtInclusive, i.bearer_status, i.fault)
          IN  \E trail_data \in Drawn(a, CreateBodies),
                 scope_identity \in Drawn(a, ScopeIdentity(nextTrailId)),
                 fault \in Drawn(a, 0..2) :
                LET r == Behind(a, create_trail(a.user[1], trails, points,
                                    nextTrailId, trailLog, trail_data,
                                    scope_identity, fault))
                IN  /\ r.nextTrailId <= MaxTrails + 1
                    /\ Len(r.trailLog) <= MaxLog
                    /\ requests' = requests + 1
                    /\ users' = a.users
                    /\ trails' = r.trails
                    /\ nextTrailId' = r.nextTrailId
                    /\ points' = r.points
                    /\ trailLog' = r.trailLog
                    /\ resp' = Response("create_trail", r, cred, <<>>,
                                        NoResponse, 0, None, a.user, r.body)
                    /\ UNCHANGED <<inflight, SECRET_KEY, jwtInclusive, now, nextUserId,
                                   nextPointId, issued>>

UpdateTrail ==
    /\ requests < MaxRequests
    /\ \E cred \in Credentials, trail_id \in TrailIds :
        \E i \in AuthInputs(cred) :
          LET a == get_current_user(cred, users, SECRET_KEY, now,
                                    jwtInclusive, i.bearer_status, i.fault)
          IN  \E trail_data \in Drawn(a, UpdateBodies),
                 fault \in Drawn(a, 0..3) :
                LET r == Behind(a, update_trail(a.user[1], trails, points,
                                    nextTrailId, trailLog, a.users, trail_id,
                                    trail_data, fault))
                IN  /\ Len(r.trailLog) <= MaxLog
                    /\ requests' = requests + 1
                    /\ users' = a.users
                    /\ trails' = r.trails
                    /\ trailLog' = r.trailLog
                    /\ resp' = Response("update_trail", r, cred, <<>>,
                                        NoResponse, trail_id, None, a.user,
                                        r.body)
                    /\ UNCHANGED <<inflight, SECRET_KEY, jwtInclusive, now, nextUserId,
                                   nextTrailId, points, nextPointId, issued>>

DeleteTrail ==
    /\ requests < MaxRequests
    /\ \E cred \in Credentials, trail_id \in TrailIds :
        \E i \in AuthInputs(cred) :
          LET a == get_current_user(cred, users, SECRET_KEY, now,
                                    jwtInclusive, i.bearer_status, i.fault)
          IN  \E on_delete \in Drawn(a, {"cascade", "restrict"}),
                 fault \in Drawn(a, 0..2) :
                LET r == Behind(a, delete_trail(a.user[1], trails, points,
                                    nextTrailId, trailLog, trail_id,
                                    on_delete, fault))
                IN  /\ requests' = requests + 1
                    /\ users' = a.users
                    /\ trails' = r.trails
                    /\ points' = r.points
                    /\ trailLog' = r.trailLog
                    /\ resp' = Response("delete_trail", r, cred, <<>>,
                                        NoResponse, trail_id, None, a.user,
                                        r.body)
                    /\ UNCHANGED <<inflight, SECRET_KEY, jwtInclusive, now, nextUserId,
                                   nextTrailId, nextPointId, issued>>

AddTrailPoint ==
    /\ requests < MaxRequests
    /\ \E cred \in Credentials, trail_id \in TrailIds :
        \E i \in AuthInputs(cred) :
          LET a == get_current_user(cred, users, SECRET_KEY, now,
                                    jwtInclusive, i.bearer_status, i.fault)
          IN  \E point_data \in Drawn(a, PointBodies),
                 fault \in Drawn(a, 0..2) :
                LET r == Behind(a, add_trail_point(a.user[1], trails, points,
                                    nextTrailId, trailLog, trail_id,
                                    point_data, nextPointId, fault))
                IN  /\ Len(r.trailLog) <= MaxLog
                    /\ requests' = requests + 1
                    /\ users' = a.users
                    /\ points' = r.points
                    /\ nextPointId' = IF r.points = points THEN nextPointId
                                      ELSE nextPointId + 1
                    /\ trailLog' = r.trailLog
                    /\ resp' = Response("add_trail_point", r, cred, <<>>,
                                        NoResponse, trail_id, None, a.user,
                                        r.body)
                    /\ UNCHANGED <<inflight, SECRET_KEY, jwtInclusive, now, nextUserId,
                                   trails, nextTrailId, issued>>

\* the request bodies tried by PUT /users/{user_id}/role
RoleBodies ==
    {[role |-> "admin"], [role |-> "user"], [role |-> "moderator"],
     [role |-> "Admin"], [role |-> "superuser"], [role |-> ""],
     [name |-> "moderator"]}

\* PUT /users/{user_id}/role: the dependency require_role("admin"), itself
\* behind get_current_user, then update_user_role
UpdateUserRole ==
    /\ requests < MaxRequests
    /\ \E cred \in Credentials, user_id \in UserIds :
        \E i \in AuthInputs(cred) :
          LET a == get_current_user(cred, users, SECRET_KEY, now,
                                    jwtInclusive, i.bearer_status, i.fault)
              g == IF a.status # 200 THEN [status |-> a.status,
                                            detail |-> a.detail]
                   ELSE role_checker(Characters(a.user[1].role),
                                     Characters("admin"))
          IN  \E role_data \in Drawn(g, RoleBodies),
                 fault \in Drawn(g, 0..3) :
                LET r == IF g.status # 200
                         THEN UserOut(g.status, g.detail, a.users, trailLog)
                         ELSE update_user_role(a.user[1], a.users, trailLog,
                                  trails, user_id, role_data, fault)
                IN  /\ Len(r.trailLog) <= MaxLog
                    /\ requests' = requests + 1
                    /\ users' = r.users
                    /\ trailLog' = r.trailLog
                    /\ resp' = Response("update_user_role", r, cred, <<>>,
                                        NoResponse, user_id, None, a.user,
                                        Some(role_data))
                    /\ UNCHANGED <<inflight, SECRET_KEY, jwtInclusive, now,
                                   nextUserId, trails, nextTrailId, points,
                                   nextPointId, issued>>

\* role strings as they can be written: a word, in a casing, between
\* leading and trailing whitespace
RoleWords == {"admin", "user", "moderator", "guest", "ad min"}

Spelled(word) ==
    IF word \in Roles THEN Characters(word)
    ELSE IF word = "guest" THEN <<"g", "u", "e", "s", "t">>
    ELSE <<"a", "d", " ", "m", "i", "n">>

upper(s) ==
    [i \in 1..Len(s) |->
        IF \E c \in DOMAIN ToLower : ToLower[c] = s[i]
        THEN CHOOSE c \in DOMAIN ToLower : ToLower[c] = s[i]
        ELSE s[i]]

Casings == {"lower", "upper", "title"}

Cased(casing, s) ==
    IF casing = "upper" THEN upper(s)
    ELSE IF casing = "title" THEN <<upper(s)[1]>> \o Tail(s)
    ELSE s

Paddings ==
    {<< <<>>, <<>> >>, << <<" ">>, <<>> >>, << <<>>, <<" ">> >>,
     << <<"\t", " ">>, <<"\n">> >>}

RoleText(written) ==
    written.padding[1] \o Cased(written.casing, Spelled(written.word))
        \o written.padding[2]

RoleInputs == [word : RoleWords, casing : Casings, padding : Paddings]

RequiredInputs ==
    [word : Roles, casing : {"lower", "title"},
     padding : {<< <<>>, <<>> >>, << <<>>, <<" ">> >>}]

\* an endpoint behind Depends(require_role(required_role)), as
\* update_user_role is, called by a resolved user whose role is any string;
\* the first request of a run
RequireRole ==
    /\ requests = 0
    /\ \E role \in RoleInputs, required_role \in RequiredInputs,
          caller \in {x.UserID : x \in users}, user_id \in UserIds :
        LET current_user == [user_id |-> caller, role |-> RoleText(role)]
            g == role_checker(current_user.role, RoleText(required_role))
            r == IF g.status # 200
                 THEN UserOut(g.status, g.detail, users, trailLog)
                 ELSE update_user_role(current_user, users, trailLog, trails,
                                       user_id, [role |-> "moderator"], 0)
        IN  /\ requests' = requests + 1
            /\ users' = r.users
            /\ trailLog' = r.trailLog
            /\ resp' = [op |-> "require_role", status |-> r.status,
                        detail |-> r.detail, guard |-> g.status,
                        user |-> Some(current_user), target |-> user_id,
                        role |-> role, required_role |-> required_role]
    /\ UNCHANGED <<inflight, SECRET_KEY, jwtInclusive, now, nextUserId,
                   trails, nextTrailId, points, nextPointId, issued>>

\* the answers the Identity Verifier can give, body shapes and statuses at
\* large: JSON lists of up to MaxBody elements, JSON that is no list, and
\* bodies that are no JSON
BodyElements == {"Verified", "True", "False"}

JsonLists == UNION {[1..n -> BodyElements] : n \in 0..MaxBody}

VerifierAnswers ==
    {TransportError} \cup
    [kind : {"response"}, status_code : {200, 201, 401, 500},
     json : {None} \cup {Some(l) : l \in JsonLists}, json_error : {""}] \cup
    [kind : {"response"}, status_code : {200, 401}, json : {None},
     json_error : {"RequestException", "ValueError"}]

\* verify_external_credentials(email, password) for an answer of the
\* Identity Verifier; the first call of a run
VerifyExternal ==
    /\ requests = 0
    /\ \E response \in VerifierAnswers :
        /\ requests' = requests + 1
        /\ resp' = [op |-> "verify_external_credentials", status |-> 0,
                    detail |-> "", verifier |-> response,
                    outcome |-> verify_external_credentials(response)]
    /\ UNCHANGED <<inflight, SECRET_KEY, jwtInclusive, now, users,
                   nextUserId, trails, nextTrailId, points, nextPointId,
                   trailLog, issued>>

\* time passes
Tick ==
    \E t \in ClockPoints :
        /\ t > now
        /\ now' = t
        /\ resp' = NoRequest("tick")
        /\ UNCHANGED <<inflight, SECRET_KEY, jwtInclusive, users, nextUserId, trails,
                       nextTrailId, points, nextPointId, trailLog, issued,
                       requests>>

\* the process restarts: auth.py:26 draws a fresh secret at import
Restart ==
    /\ SECRET_KEY.epoch <= MaxRestarts
    /\ SECRET_KEY' = ProcessKey(SECRET_KEY.epoch + 1)
    /\ resp' = NoRequest("restart")
    /\ UNCHANGED <<inflight, jwtInclusive, now, users, nextUserId, trails, nextTrailId,
                   points, nextPointId, trailLog, issued, requests>>

-----------------------------------------------------------------------------
(* login and register served by several worker processes at once.  The    *)
(* handlers have no await, so one process serves one request at a time;   *)
(* every db call is a transaction of its own (get_cursor commits and       *)
(* disconnects), so requests of different processes interleave between the *)
(* database calls of their handlers.                                       *)

Workers == 1..MaxWorkers

\* the username form field of register: absent, or given
Usernames == {None, Some("hiker")}

Idle ==
    [pc |-> "idle", op |-> "", email |-> <<>>, username |-> "",
     user_data |-> None, user_id |-> 0, status |-> 0, detail |-> "",
     token |-> None]

\* the handler of worker w ends with a response
Done(w, status, detail, token) ==
    [inflight EXCEPT ![w].pc = "done", ![w].status = status,
                     ![w].detail = detail, ![w].token = token]

\* a worker takes a request and calls the Identity Verifier
Accept(w) ==
    /\ inflight[w].pc = "idle"
    /\ \E op \in {"login", "register"}, email \in Emails,
          username \in Usernames, response \in VerifierResponses :
        LET is_valid == verify_external_credentials(response)
            name == IF op = "register" /\ TruthyStr(username)
                    THEN username[1] ELSE Head(email)
            taken == [inflight EXCEPT ![w].op = op, ![w].email = email,
                                      ![w].username = name]
        IN  inflight' =
              IF is_valid.raised
              THEN [taken EXCEPT ![w].pc = "done", ![w].status = 500]
              ELSE IF ~is_valid.value
              THEN [taken EXCEPT ![w].pc = "done",
                        ![w].status = IF op = "login" THEN 401 ELSE 400]
              ELSE [taken EXCEPT ![w].pc = "get_user_by_email"]
    /\ UNCHANGED <<SECRET_KEY, jwtInclusive, now, users, nextUserId, trails,
                   nextTrailId, points, nextPointId, trailLog, issued,
                   requests, resp>>

\* db.get_user_by_email(email)
Lookup(w) ==
    /\ inflight[w].pc = "get_user_by_email"
    /\ LET user_data == get_user_by_email(users, inflight[w].email)
       IN  inflight' =
             IF user_data = None
             THEN [inflight EXCEPT ![w].pc = "create_user"]
             ELSE IF inflight[w].op = "register"
             THEN Done(w, 400, "User already registered", None)
             ELSE [inflight EXCEPT ![w].pc = "update_user_last_login",
                                   ![w].user_data = user_data,
                                   ![w].user_id = user_data[1].UserID]
    /\ UNCHANGED <<SECRET_KEY, jwtInclusive, now, users, nextUserId, trails,
                   nextTrailId, points, nextPointId, trailLog, issued,
                   requests, resp>>

\* db.create_user({...}); register then makes the token and returns
Create(w) ==
    /\ inflight[w].pc = "create_user"
    /\ nextUserId <= MaxUsers + MaxWorkers
    /\ \E scope_identity \in ScopeIdentity(nextUserId) :
        LET me == inflight[w]
            c == create_user(users, nextUserId,
                             [email |-> me.email, username |-> me.username,
                              role |-> "user"])
            user_id == execute_update_insert(scope_identity)
        IN  /\ users' = c.table
            /\ nextUserId' = c.next
            /\ inflight' =
                 IF c.raised
                 THEN Done(w, 500, IF me.op = "login"
                                   THEN "Error during authentication"
                                   ELSE "Error during registration", None)
                 ELSE IF me.op = "register"
                 THEN [Done(w, 200, "Registration successful",
                            Some(create_session_token(me.email, user_id,
                                     SECRET_KEY, now, now)))
                         EXCEPT ![w].user_id = user_id]
                 ELSE [inflight EXCEPT ![w].pc = "get_user_by_id",
                                       ![w].user_id = user_id]
    /\ UNCHANGED <<SECRET_KEY, jwtInclusive, now, trails, nextTrailId,
                   points, nextPointId, trailLog, issued, requests, resp>>

\* login: db.get_user_by_id(user_id), then the token; user_data["Username"]
\* raises TypeError when no row came back
Fetch(w) ==
    /\ inflight[w].pc = "get_user_by_id"
    /\ LET me == inflight[w]
           user_data == get_user_by_id(users, me.user_id)
       IN  inflight' =
             IF user_data = None
             THEN Done(w, 500, "Error during authentication", None)
             ELSE [Done(w, 200, "Login successful",
                        Some(create_session_token(me.email, me.user_id,
                                 SECRET_KEY, now, now)))
                     EXCEPT ![w].user_data = user_data]
    /\ UNCHANGED <<SECRET_KEY, jwtInclusive, now, users, nextUserId, trails,
                   nextTrailId, points, nextPointId, trailLog, issued,
                   requests, resp>>

\* login: db.update_user_last_login(user_id), then the token
Touch(w) ==
    /\ inflight[w].pc = "update_user_last_login"
    /\ LET me == inflight[w]
       IN  /\ users' = update_user_last_login(users, me.user_id, now)
           /\ inflight' = Done(w, 200, "Login successful",
                               Some(create_session_token(me.email,
                                        me.user_id, SECRET_KEY, now, now)))
    /\ UNCHANGED <<SECRET_KEY, jwtInclusive, now, nextUserId, trails,
                   nextTrailId, points, nextPointId, trailLog, issued,
                   requests, resp>>

-----------------------------------------------------------------------------
(* The seeded database (scripts/seed_database.py) and a fresh process *)

SeedUsers ==
    {[UserID |-> 1, Username |-> "Ada Lovelace", Email |-> GraceEmail,
      Role |-> "admin", LastLogin |-> None],
     [UserID |-> 2, Username |-> "Ada Lovelace", Email |-> AdaEmail,
      Role |-> "user", LastLogin |-> None]}

\* a public trail of the admin's and the private trail of a role-'user'
\* account
SeedTrails ==
    {[TrailID |-> 1, TrailName |-> "Plymbridge Circular Walk", UserID |-> 1,
      IsPublic |-> TRUE],
     [TrailID |-> 2, TrailName |-> "Private Test Trail", UserID |-> 2,
      IsPublic |-> FALSE]}

SeedPoints ==
    {[PointID |-> 1, TrailID |-> 1, PointOrder |-> 1],
     [PointID |-> 2, TrailID |-> 1, PointOrder |-> 2]}

\* scripts/seed_database.py is run again: every table is cleared, the
\* identity counters are reset and the seed rows are inserted
Reseed ==
    /\ users' = SeedUsers
    /\ nextUserId' = 3
    /\ trails' = SeedTrails
    /\ nextTrailId' = 3
    /\ points' = SeedPoints
    /\ nextPointId' = 3
    /\ trailLog' = <<>>
    /\ resp' = NoRequest("reseed")
    /\ UNCHANGED <<inflight, SECRET_KEY, jwtInclusive, now, issued, requests>>

Init ==
    /\ SECRET_KEY = ProcessKey(1)
    /\ jwtInclusive \in BOOLEAN
    /\ now = 0
    /\ users = SeedUsers
    /\ nextUserId = 3
    /\ trails = SeedTrails
    /\ nextTrailId = 3
    /\ points = SeedPoints
    /\ nextPointId = 3
    /\ trailLog = <<>>
    /\ issued = {}
    /\ requests = 0
    /\ resp = NoRequest("init")
    /\ inflight = [w \in Workers |-> Idle]

\* the endpoints, on a database that can be seeded again
Next ==
    \/ Login
    \/ Register
    \/ Verify
    \/ GetTrail
    \/ GetTrails
    \/ GetTrailPoints
    \/ CreateTrail
    \/ UpdateTrail
    \/ DeleteTrail
    \/ AddTrailPoint
    \/ Reseed

Spec == Init /\ [][Next]_vars

\* the session lifetime: time passes and the process restarts between
\* requests that issue and resolve tokens
SessionNext ==
    \/ Login
    \/ Verify
    \/ GetTrail
    \/ Tick
    \/ Restart
    \/ Reseed

SessionSpec == Init /\ [][SessionNext]_vars

\* login and register requests served by the worker processes together
ConcurrentNext ==
    \E w \in Workers :
        \/ Accept(w)
        \/ Lookup(w)
        \/ Create(w)
        \/ Fetch(w)
        \/ Touch(w)

ConcurrentSpec == Init /\ [][ConcurrentNext]_vars

\* the seeded database after its two accounts have logged in, at time 0,
\* and kept their tokens
LoggedIn ==
    LET ok == [kind |-> "response", status_code |-> 200,
               json |-> Some(<<"Verified", "True">>), json_error |-> ""]
        r1 == login(AdaEmail, ok, SeedUsers, 3, ProcessKey(1), 0, 0, None, 0)
        r2 == login(GraceEmail, ok, r1.users, 3, ProcessKey(1), 0, 0, None, 0)
    IN  [users |-> r2.users, issued |-> {r1.token[1], r2.token[1]}]

AdminInit ==
    /\ SECRET_KEY = ProcessKey(1)
    /\ jwtInclusive \in BOOLEAN
    /\ now = 0
    /\ users = LoggedIn.users
    /\ nextUserId = 3
    /\ trails = SeedTrails
    /\ nextTrailId = 3
    /\ points = SeedPoints
    /\ nextPointId = 3
    /\ trailLog = <<>>
    /\ issued = LoggedIn.issued
    /\ requests = 0
    /\ resp = NoRequest("init")
    /\ inflight = [w \in Workers |-> Idle]

\* the sessions of an admin and of another user, while roles are changed,
\* others log in or register and time passes
AdminNext ==
    \/ Login
    \/ Register
    \/ Verify
    \/ GetTrail
    \/ UpdateUserRole
    \/ Tick

AdminSpec == AdminInit /\ [][AdminNext]_vars

\* every endpoint modelled, served to the two logged-in accounts and to
\* anyone else
RoleNext ==
    \/ Login
    \/ Register
    \/ Verify
    \/ GetTrail
    \/ GetTrails
    \/ GetTrailPoints
    \/ CreateTrail
    \/ UpdateTrail
    \/ DeleteTrail
    \/ AddTrailPoint
    \/ UpdateUserRole

RoleSpec == AdminInit /\ [][RoleNext]_vars

\* the checks on strings and verifier answers, applied to drawn inputs
FunctionNext ==
    \/ RequireRole
    \/ VerifyExternal

FunctionSpec == Init /\ [][FunctionNext]_vars

-----------------------------------------------------------------------------
(* Properties *)

\* the tokens a client can present
Presentable == issued \cup Tampered(issued) \cup AttackerTokens

\* tok carries the HS256 signature the running process makes of tok's own
\* header and payload
Authentic(tok) ==
    /\ tok.header.alg = ALGORITHM
    /\ tok.sig = HMAC(SECRET_KEY, [header |-> tok.header,
                                   payload |-> tok.payload])

\* the row of CW2.[User] as the User the resolver builds from it
AsUser(row) ==
    [user_id |-> row.UserID, username |-> row.Username, email |-> row.Email,
     role |-> row.Role]

C5_InvalidAtOrAfterExpiry ==
    \A tok \in Presentable :
        now >= tok.payload.exp
            => verify_session_token(tok, SECRET_KEY, now, jwtInclusive) = None

\* C6: for every email and user_id, the token create_session_token makes is
\* accepted by verify_session_token under the same secret at every later
\* time before its expiry (24 hours after issue), with the user_id and the
\* email it was made for.
C6_RoundTrip ==
    \A email \in Emails, user_id \in 0..MaxUsers, t2 \in LaterReadings :
        LET tok == create_session_token(email, user_id, SECRET_KEY, now, t2)
        IN  \A t \in ClockPoints :
                (t2 <= t /\ t < now + SessionSeconds)
                    => verify_session_token(tok, SECRET_KEY, t, jwtInclusive)
                         = Some([valid |-> TRUE, user_id |-> user_id,
                                 email |-> email,
                                 exp |-> now + SessionSeconds])

\* GET /auth/verify resolved a token of this process after time had passed
C6_Witness ==
    /\ resp.op = "verify"
    /\ resp.status = 200
    /\ resp.cred # None
    /\ resp.cred[1] \in issued
    /\ resp.cred[1].payload.iat < now
    /\ now < resp.cred[1].payload.exp
    /\ resp.user[1].user_id = resp.cred[1].payload.user_id

\* C7: verify_session_token returns None, at any time, for every token
\* whose signature was not made with the verifying process's secret over the
\* token's own content.
C7_ForeignSignatureRejected ==
    \A tok \in Presentable, t \in ClockPoints :
        ~Authentic(tok)
            => verify_session_token(tok, SECRET_KEY, t, jwtInclusive) = None

\* after a restart, an unexpired token of the previous process was refused
C7_Witness ==
    /\ resp.op = "verify"
    /\ resp.status = 401
    /\ resp.cred # None
    /\ resp.cred[1] \in issued
    /\ resp.cred[1].sig.key # SECRET_KEY
    /\ resp.cred[1].sig.key.source = SECRET_KEY.source
    /\ now < resp.cred[1].payload.exp

\* C8: get_current_user, given an accepted token whose user_id has no User
\* row and a database that answers, fails with status 401 and leaves the
\* user table as it was.
C8_MissingUserIs401 ==
    \A tok \in Presentable :
        (/\ verify_session_token(tok, SECRET_KEY, now, jwtInclusive) # None
         /\ get_user_by_id(users, tok.payload.user_id) = None)
            => LET r == get_current_user(Some(tok), users, SECRET_KEY, now,
                                         jwtInclusive, 401, 0)
               IN  r.status = 401 /\ r.users = users

\* the User row a credential stands for: the row of the user_id of a token
\* that verify_session_token accepts, None when there is none
Requester(cred) ==
    IF cred = None THEN None
    ELSE IF verify_session_token(cred[1], SECRET_KEY, now, jwtInclusive) = None
    THEN None
    ELSE get_user_by_id(users, cred[1].payload.user_id)

Presented == {None} \cup {Some(tok) : tok \in Presentable}

\* C2: with the database answering, update_trail, delete_trail and
\* add_trail_point answer 401 or 403 and leave the trails, the points and
\* the audit log unchanged whenever the requester is unauthenticated or is
\* neither the owner of the trail nor an admin.
C2_UnauthorizedMutationRejected ==
    \A cred \in Presented, t \in trails, bearer_status \in {401, 403} :
        LET who == Requester(cred)
            a == get_current_user(cred, users, SECRET_KEY, now, jwtInclusive,
                                  bearer_status, 0)
            outcomes ==
                {Behind(a, update_trail(a.user[1], trails, points,
                               nextTrailId, trailLog, a.users, t.TrailID,
                               trail_data, 0)) : trail_data \in UpdateBodies}
                \cup
                {Behind(a, delete_trail(a.user[1], trails, points,
                               nextTrailId, trailLog, t.TrailID, on_delete,
                               0)) : on_delete \in {"cascade", "restrict"}}
                \cup
                {Behind(a, add_trail_point(a.user[1], trails, points,
                               nextTrailId, trailLog, t.TrailID, point_data,
                               nextPointId, 0)) : point_data \in PointBodies}
        IN  (who = None
             \/ (who[1].UserID # t.UserID /\ who[1].Role # "admin"))
                => \A r \in outcomes :
                       /\ r.status \in {401, 403}
                       /\ r.trails = trails
                       /\ r.points = points
                       /\ r.trailLog = trailLog

\* C3: with the database answering, update_trail, delete_trail and
\* add_trail_point asked by the trail's owner (whatever the owner's role) or
\* by an admin are not answered 403 and the mutation is applied (the trail
\* is renamed, the trail is gone, the trail has a new point), whether the
\* trail is public or not.
C3_OwnerOrAdminMutates ==
    \A cred \in Presented, t \in trails :
        LET who == Requester(cred)
            a == get_current_user(cred, users, SECRET_KEY, now, jwtInclusive,
                                  401, 0)
            upd == Behind(a, update_trail(a.user[1], trails, points,
                              nextTrailId, trailLog, a.users, t.TrailID,
                              [trail_name |-> "New"], 0))
            del == Behind(a, delete_trail(a.user[1], trails, points,
                              nextTrailId, trailLog, t.TrailID, "cascade",
                              0))
            add == Behind(a, add_trail_point(a.user[1], trails, points,
                              nextTrailId, trailLog, t.TrailID,
                              [latitude |-> 50, longitude |-> 4],
                              nextPointId, 0))
        IN  (who # None
             /\ (who[1].UserID = t.UserID \/ who[1].Role = "admin"))
                => /\ upd.status # 403
                   /\ \E x \in upd.trails :
                          x.TrailID = t.TrailID /\ x.TrailName = "New"
                   /\ del.status # 403
                   /\ \A x \in del.trails : x.TrailID # t.TrailID
                   /\ add.status # 403
                   /\ \E q \in add.points \ points : q.TrailID = t.TrailID

\* C4: with the database answering, get_trail answers 200 exactly when the
\* trail is public or the requester is authenticated and is the trail's
\* owner or an admin; otherwise it answers 403 with no trail data.
C4_ViewExactlyWhenAllowed ==
    \A cred \in Presented, t \in trails :
        LET who == Requester(cred)
            r == get_trail(get_optional_user(cred, users, SECRET_KEY, now,
                                             jwtInclusive, FALSE),
                           trails, points, nextTrailId, trailLog, t.TrailID,
                           0)
            can_view ==
                \/ t.IsPublic
                \/ /\ who # None
                   /\ (who[1].UserID = t.UserID \/ who[1].Role = "admin")
        IN  /\ r.status = 200 <=> can_view
            /\ ~can_view => (r.status = 403 /\ r.body = None)
            /\ r.status = 200 => r.body # None

\* a user who is neither owner nor admin asked for a private trail and was
\* answered 403 without data
C4_Witness ==
    /\ resp.op = "get_trail"
    /\ resp.status = 403
    /\ resp.body = None
    /\ resp.user # None
    /\ resp.user[1].role = "user"
    /\ \E t \in trails :
          /\ t.TrailID = resp.target
          /\ ~t.IsPublic
          /\ t.UserID # resp.user[1].user_id

\* C9: a login the Identity Verifier accepts, for an email that has no User
\* row, and that succeeds, adds exactly one User row, with the email's
\* local part as username and the role 'user', and returns a token that
\* get_current_user resolves to that row's user_id.
C9_LoginCreatesTheUserItResolvesTo ==
    [][(/\ resp'.op = "login"
        /\ requests' = requests + 1
        /\ verify_external_credentials(resp'.verifier).value
        /\ get_user_by_email(users, resp'.email) = None
        /\ resp'.status = 200)
          => /\ Cardinality(users' \ users) = 1
             /\ \A x \in users' \ users :
                   /\ x.Email = resp'.email
                   /\ x.Username = Head(resp'.email)
                   /\ x.Role = "user"
                   /\ resp'.token # None
                   /\ LET r == get_current_user(resp'.token, users',
                                   SECRET_KEY', now', jwtInclusive', 401, 0)
                      IN  /\ r.status = 200
                          /\ r.user[1].user_id = x.UserID]_vars

\* C10: a login whose credentials the Identity Verifier does not accept is
\* answered 401 without a token, adds no User row, changes no User row and
\* leaves the tokens in circulation as they were.
C10_RejectedLoginChangesNothing ==
    [][(/\ resp'.op = "login"
        /\ requests' = requests + 1
        /\ verify_external_credentials(resp'.verifier) = Returned(FALSE))
          => /\ resp'.status = 401
             /\ resp'.detail = "Invalid email or password"
             /\ resp'.token = None
             /\ resp'.user = None
             /\ users' = users
             /\ nextUserId' = nextUserId
             /\ issued' = issued]_vars

\* a login was refused on the Identity Verifier's answer after an earlier
\* login had stamped a row's LastLogin
C10_Witness ==
    /\ resp.op = "login"
    /\ resp.verifier.kind = "response"
    /\ verify_external_credentials(resp.verifier) = Returned(FALSE)
    /\ resp.status = 401
    /\ resp.token = None
    /\ \E x \in users : x.Email = resp.email /\ x.LastLogin # None

\* the Identity Verifier's answers that verify_external_credentials accepts
Verified ==
    {v \in VerifierResponses : verify_external_credentials(v).value}

\* C11: at most one User row exists per email; and a register with a
\* verified email that has no User row succeeds with a token and adds one
\* row, after which a second register with the same email is answered 400
\* 'User already registered' without a token, leaving the User table and
\* its identity counter as the first register left them.
C11_RegisterOncePerEmail ==
    /\ \A x, y \in users : x.Email = y.Email => x = y
    /\ \A email \in Emails, first, second \in Verified,
          name1, name2 \in Usernames,
          scope_identity \in ScopeIdentity(nextUserId) :
          LET r1 == register_user(email, name1, first, users, nextUserId,
                                  SECRET_KEY, now, now, scope_identity, 0)
              r2 == register_user(email, name2, second, r1.users,
                                  r1.nextUserId, SECRET_KEY, now, now,
                                  scope_identity, 0)
          IN  get_user_by_email(users, email) = None
                => /\ r1.status = 200
                   /\ r1.token # None
                   /\ Cardinality(r1.users \ users) = 1
                   /\ \A x \in r1.users \ users : x.Email = email
                   /\ r2.status = 400
                   /\ r2.detail = "User already registered"
                   /\ r2.token = None
                   /\ r2.users = r1.users
                   /\ r2.nextUserId = r1.nextUserId

\* a register was refused as already registered for an email whose only
\* row an earlier register had created
C11_Witness ==
    /\ resp.op = "register"
    /\ resp.status = 400
    /\ resp.detail = "User already registered"
    /\ resp.token = None
    /\ verify_external_credentials(resp.verifier).value
    /\ Cardinality({x \in users : x.Email = resp.email}) = 1
    /\ \E x \in users : x.Email = resp.email /\ x.Username = "hiker"

\* C12: however the login and register requests of the worker processes
\* for one verified email that had no User row interleave, at most one User
\* row for that email exists, and every token those requests returned
\* carries that row's UserID.
C12_ConcurrentFirstContactOneUser ==
    \A email \in Emails :
        get_user_by_email(SeedUsers, email) = None
          => /\ Cardinality({x \in users : x.Email = email}) <= 1
             /\ \A w \in Workers :
                   (/\ inflight[w].pc = "done"
                    /\ inflight[w].email = email
                    /\ inflight[w].token # None)
                     => \E x \in users :
                           /\ x.Email = email
                           /\ inflight[w].token[1].payload.user_id = x.UserID

\* the callers require_role("admin") admits: the outcomes of
\* get_current_user, with the database answering, for the credentials a
\* client can present
Admins ==
    {a \in {get_current_user(cred, users, SECRET_KEY, now, jwtInclusive,
                             401, 0) : cred \in Presented} :
        /\ a.status = 200
        /\ role_checker(Characters(a.user[1].role),
                        Characters("admin")).status = 200}

\* C13: update_user_role called by an admin with the admin's own user_id as
\* target is refused (400 'Cannot change your own role') for each of the
\* roles 'admin', 'user' and 'moderator', and leaves the User table, so the
\* admin's stored role, and the audit log unchanged.
C13_OwnRoleNeverChanged ==
    \A a \in Admins, new_role \in Roles, fault \in 0..3 :
        LET r == update_user_role(a.user[1], a.users, trailLog, trails,
                                  a.user[1].user_id, [role |-> new_role],
                                  fault)
        IN  /\ r.status = 400
            /\ r.detail = "Cannot change your own role"
            /\ r.users = a.users
            /\ r.trailLog = trailLog
            /\ \A x \in users : x.UserID = a.user[1].user_id
                  => \E y \in r.users : y.UserID = x.UserID /\ y.Role = x.Role

\* an admin asked for a valid role on the admin's own user_id and was
\* refused, the stored role still 'admin'
C13_Witness ==
    /\ resp.op = "update_user_role"
    /\ resp.user # None
    /\ resp.target = resp.user[1].user_id
    /\ "role" \in DOMAIN resp.body[1]
    /\ resp.body[1].role \in {"user", "moderator"}
    /\ resp.status = 400
    /\ resp.detail = "Cannot change your own role"
    /\ \E x \in users : x.UserID = resp.target /\ x.Role = "admin"

\* C14: update_user_role called by an admin on another user with a role
\* that is missing, empty or not one of 'admin', 'user', 'moderator' is
\* answered 400 'Invalid role...', and leaves the User table, so the
\* target's stored role, and the audit log unchanged.
C14_UnknownRoleRejected ==
    \A a \in Admins, user_id \in UserIds, role_data \in RoleBodies,
       fault \in 0..3 :
        LET r == update_user_role(a.user[1], a.users, trailLog, trails,
                                  user_id, role_data, fault)
        IN  (/\ user_id # a.user[1].user_id
             /\ \/ "role" \notin DOMAIN role_data
                \/ role_data.role \notin {"admin", "user", "moderator"})
              => /\ r.status = 400
                 /\ r.detail = "Invalid role. Must be 'admin', 'user', or 'moderator'"
                 /\ r.users = a.users
                 /\ r.trailLog = trailLog

\* an admin asked for an unknown role on another, existing user and was
\* refused, the target's row as it was seeded
C14_Witness ==
    /\ resp.op = "update_user_role"
    /\ resp.user # None
    /\ resp.user[1].role = "admin"
    /\ resp.target # resp.user[1].user_id
    /\ "role" \in DOMAIN resp.body[1]
    /\ resp.body[1].role = "superuser"
    /\ resp.status = 400
    /\ \E x \in users : x.UserID = resp.target /\ x.Role = "user"

\* C15: require_role(R) admits a user exactly when the user's role,
\* whatever its casing and surrounding whitespace, is the word 'admin' or
\* the word of R; every other user is answered 403, and the operation
\* behind the check changes neither the User table nor the audit log.
C15_RoleCheckNormalises ==
    [][(resp'.op = "require_role" /\ requests' = requests + 1)
         => LET admitted == \/ resp'.role.word = "admin"
                            \/ resp'.role.word = resp'.required_role.word
            IN  /\ admitted <=> resp'.guard = 200
                /\ ~admitted => /\ resp'.status = 403
                                /\ users' = users
                                /\ trailLog' = trailLog]_vars

\* a moderator whose role is written in another casing and padding than
\* the required role was admitted, and the operation behind the check ran
C15_Witness ==
    /\ resp.op = "require_role"
    /\ resp.role.word = "moderator"
    /\ resp.required_role.word = "moderator"
    /\ resp.role.casing = "upper"
    /\ resp.role.padding = << <<"\t", " ">>, <<"\n">> >>
    /\ resp.user[1].role # RoleText(resp.required_role)
    /\ resp.guard = 200
    /\ resp.status # 403
    /\ \E x \in users : x.UserID = resp.target /\ x.Role = "moderator"

\* C19 as stated: verify_external_credentials returns True exactly when the
\* status is 200 and the body is the two-element list "Verified", "True";
\* for every other answer, lists of more than two elements included, it
\* returns False.
C19_OnlyTheTwoElementList ==
    resp.op = "verify_external_credentials"
      => LET v == resp.verifier
             exact == /\ v.kind = "response"
                      /\ v.status_code = 200
                      /\ v.json = Some(<<"Verified", "True">>)
         IN  resp.outcome = Returned(exact)

\* C19: verify_external_credentials returns True exactly when the status
\* is 200 and the body is a JSON list of at least two elements that begins
\* "Verified", "True", whatever follows; for every other answer it does not
\* return True: it returns False, or, when a 200 body is no JSON and
\* response.json() raises a ValueError, that exception escapes it.
C19_ListBeginningVerifiedTrue ==
    resp.op = "verify_external_credentials"
      => LET v == resp.verifier
             begins == /\ v.kind = "response"
                       /\ v.status_code = 200
                       /\ v.json # None
                       /\ Len(v.json[1]) >= 2
                       /\ SubSeq(v.json[1], 1, 2) = <<"Verified", "True">>
             escapes == /\ v.kind = "response"
                        /\ v.status_code = 200
                        /\ v.json_error = "ValueError"
         IN  /\ resp.outcome.value <=> begins
             /\ resp.outcome.raised <=> escapes

\* a 200 answer whose list has a third element after "Verified", "True"
\* was taken as valid
C19_Witness ==
    /\ resp.op = "verify_external_credentials"
    /\ resp.verifier.status_code = 200
    /\ resp.verifier.json = Some(<<"Verified", "True", "False">>)
    /\ resp.outcome = Returned(TRUE)

C17_ValidUntilExpiry ==
    \A tok \in issued :
        (/\ Authentic(tok)
         /\ now < tok.payload.exp
         /\ get_user_by_id(users, tok.payload.user_id) # None)
          => LET a == get_current_user(Some(tok), users, SECRET_KEY, now,
                                       jwtInclusive, 401, 0)
             IN  /\ a.status = 200
                 /\ a.user[1].user_id = tok.payload.user_id

\* after an admin changed the holder's role and time passed, the holder's
\* token, issued before, was accepted and resolved to the new role
C17_Witness ==
    /\ resp.op = "verify"
    /\ resp.status = 200
    /\ resp.cred[1] \in issued
    /\ resp.cred[1].payload.iat < now
    /\ resp.user[1].user_id = 2
    /\ resp.user[1].role = "admin"
    /\ \E x \in SeedUsers : x.UserID = 2 /\ x.Role = "user"

\* C18: a logout that succeeds changes nothing the service stores but the
\* LastLogin stamp get_current_user puts on the caller's row (no stamp
\* when that UPDATE fails): the secret, the tokens in circulation and the
\* other tables stay as they were; and the token it was called with is
\* still resolved by get_current_user to the same User at every later time
\* before its expiry.
C18_LogoutInvalidatesNothing ==
    [][(/\ resp'.op = "logout"
        /\ requests' = requests + 1
        /\ resp'.status = 200)
          => /\ users' \in {users,
                            {IF x.UserID = resp'.user[1].user_id
                             THEN [x EXCEPT !.LastLogin = Some(now)] ELSE x
                                : x \in users}}
             /\ UNCHANGED <<SECRET_KEY, jwtInclusive, now, nextUserId,
                            trails, nextTrailId, points, nextPointId,
                            trailLog, issued>>
             /\ \A t \in ClockPoints :
                   (now <= t /\ t < resp'.cred[1].payload.exp)
                     => LET a == get_current_user(resp'.cred, users',
                                     SECRET_KEY', t, jwtInclusive', 401, 0)
                        IN  /\ a.status = 200
                            /\ a.user[1].user_id = resp'.user[1].user_id]_vars

\* a logout succeeded with a token issued earlier, which the client still
\* holds and the resolver still accepts
C18_Witness ==
    /\ resp.op = "logout"
    /\ resp.status = 200
    /\ resp.cred[1] \in issued
    /\ resp.cred[1].payload.iat < now
    /\ get_current_user(resp.cred, users, SECRET_KEY, now, jwtInclusive,
                        401, 0).status = 200

\* C20: a login or register whose call to the Identity Verifier fails at
\* the transport level (timeout, connection error) is answered with an
\* authentication-service error, 500 or 503, not with the answer given to
\* rejected credentials; no User row is created and no token is issued.
C20_TransportFailureIsUpstreamError ==
    [][(/\ resp'.op \in {"login", "register"}
        /\ requests' = requests + 1
        /\ resp'.verifier = TransportError)
          => /\ resp'.status \in {500, 503}
             /\ resp'.token = None
             /\ users' = users
             /\ nextUserId' = nextUserId
             /\ issued' = issued]_vars

\* C21: a register whose credentials the Identity Verifier rejects is
\* answered 401, creates no User and issues no token, whether or not a User
\* already exists for the email.
C21_RejectedRegisterIs401 ==
    [][(/\ resp'.op = "register"
        /\ requests' = requests + 1
        /\ verify_external_credentials(resp'.verifier) = Returned(FALSE))
          => /\ resp'.status = 401
             /\ resp'.token = None
             /\ users' = users
             /\ nextUserId' = nextUserId
             /\ issued' = issued]_vars

\* C22: with the database answering, get_current_user gives every request
\* that resolves to no User the same response, status 401 with one generic
\* message, whether the token is missing, invalid or expired, or accepted
\* but of a user that no longer exists.
C22_UnresolvedRequestsLookAlike ==
    \A c1 \in Presented, c2 \in Presented, bearer_status \in {401, 403} :
        LET r1 == get_current_user(c1, users, SECRET_KEY, now, jwtInclusive,
                                   bearer_status, 0)
            r2 == get_current_user(c2, users, SECRET_KEY, now, jwtInclusive,
                                   bearer_status, 0)
        IN  (Requester(c1) = None /\ Requester(c2) = None)
                => /\ r1.status = 401
                   /\ r1.status = r2.status
                   /\ r1.detail = r2.detail

\* C23: every token create_session_token has produced carries an expiry
\* equal to its issued-at plus exactly 86400 seconds, the expires_in that
\* login reports, at whatever instant it was issued.
C23_ExpiryIsIssuedAtPlusLifetime ==
    \A tok \in issued :
        /\ tok.payload.exp = tok.payload.iat + ExpiresIn
        /\ ExpiresIn = 86400

\* C24: with the database answering, GET /trails/{trail_id} without
\* authentication, for every stored public trail, answers 200 with a body
\* whose trail_id is the requested one.
C24_PublicTrailBodyCarriesItsId ==
    \A t \in trails :
        t.IsPublic
            => LET r == get_trail(None, trails, points, nextTrailId,
                                  trailLog, t.TrailID, 0)
               IN  /\ r.status = 200
                   /\ r.body # None
                   /\ r.body[1].trail_id = t.TrailID

\* C25: with the database answering, get_trails answers 200 to every
\* requester and its default page lists exactly the trails that are public
\* or, for an authenticated requester, private and owned by the requester:
\* an unauthenticated requester is shown the public trails only and nobody
\* is shown another user's private trail.
C25_ListShowsPublicAndOwn ==
    \A cred \in Presented :
        LET who == get_optional_user(cred, users, SECRET_KEY, now,
                                     jwtInclusive, FALSE)
            r == get_trails(who, trails, points, nextTrailId, trailLog,
                            20, 0, 0)
            visible == {t \in trails :
                           \/ t.IsPublic
                           \/ who # None /\ t.UserID = who[1].user_id}
        IN  /\ r.status = 200
            /\ r.body # None
            /\ {r.body[1].trails[i] : i \in 1..Len(r.body[1].trails)}
                  = {TrailEntry(t) : t \in visible}
            /\ r.body[1].total = Cardinality(visible)

\* C26: with the database answering, get_trail_points returns the points of
\* a stored trail (status 200) exactly when the trail is public or the
\* requester is authenticated and is the trail's owner or an admin; every
\* other request is answered 403 without points.
C26_PointsExactlyWhenAllowed ==
    \A cred \in Presented, t \in trails :
        LET who == Requester(cred)
            r == get_trail_points_endpoint(
                     get_optional_user(cred, users, SECRET_KEY, now,
                                       jwtInclusive, FALSE),
                     trails, points, nextTrailId, trailLog, t.TrailID, 0)
            can_view ==
                \/ t.IsPublic
                \/ /\ who # None
                   /\ (who[1].UserID = t.UserID \/ who[1].Role = "admin")
        IN  /\ r.status = 200 <=> can_view
            /\ r.status = 200
                  => r.body = Some({q \in points : q.TrailID = t.TrailID})
            /\ ~can_view => (r.status = 403 /\ r.body = None)

\* C27: add_trail_point gives the new point of a trail the order
\* max(stored point orders of that trail, default 0) + 1, and the stored
\* point orders of every trail are pairwise distinct.
C27_NextOrderFollowsStoredOrders ==
    \A t \in trails :
        LET stored == {q.PointOrder : q \in get_trail_points(points, t.TrailID)}
                      \cup {0}
        IN  /\ next_order(points, t.TrailID)
                  = (CHOOSE m \in stored : \A o \in stored : o <= m) + 1
            /\ \A q1, q2 \in get_trail_points(points, t.TrailID) :
                   q1.PointOrder = q2.PointOrder => q1 = q2

\* C28: a trail's stored owner is the authenticated user who created it:
\* create_trail stores the requester's user_id whatever the body carries,
\* and no request changes the owner of a stored trail.
C28_OwnerIsTheCreator ==
    [][resp'.op # "reseed"
          => /\ \A t \in trails, t2 \in trails' :
                    t.TrailID = t2.TrailID => t2.UserID = t.UserID
             /\ \A t2 \in trails' \ trails :
                    (\A t \in trails : t.TrailID # t2.TrailID)
                        => /\ resp'.op = "create_trail"
                           /\ resp'.user # None
                           /\ t2.UserID = resp'.user[1].user_id]_vars

\* C29: every stored role is one of 'admin', 'user', 'moderator', and the
\* role of a stored User changes only in an update_user_role request whose
\* requester's stored role is admin and whose target is another user:
\* login, register, logout, verify, token resolution and the trail
\* operations leave every role as it was.
C29_RolesChangeOnlyByAnotherAdmin ==
    /\ [](\A u \in users : u.Role \in Roles)
    /\ [][\A u \in users, u2 \in users' :
            (u.UserID = u2.UserID /\ u.Role # u2.Role)
                => /\ resp'.op = "update_user_role"
                   /\ resp'.target = u.UserID
                   /\ resp'.user # None
                   /\ resp'.user[1].user_id # u.UserID
                   /\ \E a \in users :
                          /\ a.UserID = resp'.user[1].user_id
                          /\ a.Role = "admin"]_vars

\* an admin's update_user_role request changed the stored role of the
\* other account
C29_Witness ==
    /\ resp.op = "update_user_role"
    /\ resp.user # None
    /\ resp.user[1].role = "admin"
    /\ resp.target = 2
    /\ resp.user[1].user_id # resp.target
    /\ \E u \in users :
          /\ u.UserID = resp.target
          /\ Some(u.Role) = Get(resp.body[1], "role")
          /\ u.Role # "user"

\* C30: a request is authorized under the role stored, at the time of the
\* request, for the user of the token it presents, whatever the role was
\* when the token was issued: both resolvers return the stored role, the
\* admin-only guard lets the request through exactly when that role is
\* admin, and another user's private trail can be read, and another user's
\* trail updated, exactly when that role is admin.
C30_AuthorizationUsesStoredRole ==
    /\ [](\A tok \in issued, u \in users :
            (/\ u.UserID = tok.payload.user_id
             /\ verify_session_token(tok, SECRET_KEY, now, jwtInclusive)
                   # None)
                => LET a == get_current_user(Some(tok), users, SECRET_KEY,
                                now, jwtInclusive, 401, 0)
                       o == get_optional_user(Some(tok), users, SECRET_KEY,
                                now, jwtInclusive, FALSE)
                       g == role_checker(Characters(a.user[1].role),
                                         Characters("admin"))
                   IN  /\ a.status = 200
                       /\ a.user[1].role = u.Role
                       /\ o # None
                       /\ o[1].role = u.Role
                       /\ g.status = 200 <=> u.Role = "admin"
                       /\ g.status # 200 => g.status = 403
                       /\ \A t \in trails :
                            (~t.IsPublic /\ t.UserID # u.UserID)
                                => (get_trail(o, trails, points, nextTrailId,
                                        trailLog, t.TrailID, 0).status = 200
                                      <=> u.Role = "admin")
                       /\ \A t \in trails :
                            t.UserID # u.UserID
                                => (update_trail(a.user[1], trails, points,
                                        nextTrailId, trailLog, a.users,
                                        t.TrailID, [trail_name |-> "New"],
                                        0).status # 403
                                      <=> u.Role = "admin"))
    /\ [][(/\ requests' = requests + 1
           /\ resp'.cred # None
           /\ resp'.user # None)
             => \E u \in users :
                    /\ u.UserID = resp'.user[1].user_id
                    /\ u.Role = resp'.user[1].role]_vars

\* the account seeded with role 'user', promoted after its token was
\* issued, used that token for the admin-only update_user_role, was let
\* through, and demoted the administrator, whose own token is still valid
C30_Witness ==
    /\ resp.op = "update_user_role"
    /\ resp.cred # None
    /\ resp.cred[1] \in issued
    /\ resp.cred[1].payload.user_id = 2
    /\ resp.user # None
    /\ resp.user[1].role = "admin"
    /\ resp.status \notin {401, 403}
    /\ resp.target = 1
    /\ \E u \in users : u.UserID = 1 /\ u.Role # "admin"
    /\ \E tok \in issued :
          /\ tok.payload.user_id = 1
          /\ verify_session_token(tok, SECRET_KEY, now, jwtInclusive) # None

====
